---- MODULE Spec2Model ----
(***************************************************************************)
(* Collection engine of the engineering-metrics-study collector.           *)
(*                                                                         *)
(* Spec        one process run on an empty output directory: run() builds  *)
(*             the runtime and calls collectReposParallel; the workers     *)
(*             pull repository indices from the shared counter and run     *)
(*             collectRepo on each.                                        *)
(* SpecRerun   the same, followed by a second process run on the same      *)
(*             repositories and output directory (Rerun), so that the      *)
(*             cache files the second run finds are files the first wrote. *)
(* SpecGraphQL the scan of collectDeploymentGraphQLEvents over the pages   *)
(*             of one repository.                                          *)
(* SpecDeployments  collectDeploymentApiEvents and the GraphQL scan over   *)
(*             the same listing of deployments.                            *)
(* SpecPulls   collectPullRequests over the pages of one connection.       *)
(* SpecActions collectActionsEvents over one listing of workflow runs.     *)
(* SpecReleases  collectReleaseEvents over one listing of releases.         *)
(* SpecValidation, SpecPromote  writeValidationFile of the recommender and *)
(*             mergeConfigs of promote-config, each called twice.          *)
(* SpecFetch, SpecRate, SpecStartup  a call of fetchWithConditional, the   *)
(*             rate limiter, and the start of run() up to the batch.       *)
(*                                                                         *)
(* Time is counted in seconds; the repositories of a batch are the indices *)
(* 0..n-1 of repoConfigs, and repoDir gives each the directory that        *)
(* ensureRepoDir computes for it, which two repositories can share.        *)
(*                                                                         *)
(* The code runs on one thread: what a worker does between two awaits is   *)
(* one step.  The awaits of the file system (ensureDir, readFile,          *)
(* outputJson) are taken together with the code after them up to the next  *)
(* request or cache decision.                                              *)
(***************************************************************************)
EXTENDS Integers, Sequences, FiniteSets, TLC

\* ---------------------------------------------------------------- bounds
MaxRepos == 2
MaxConcurrency == 2
MaxClock == 2
MaxRerunRepos == 2
MaxPages == 2        \* pages of deployments the upstream serves to one scan
MaxPageNodes == 2    \* nodes in one page
MaxTime == 2         \* timestamps are 0 .. MaxTime
MaxEntries == 2      \* repository entries given to a process run
MaxSegments == 3     \* parts of a slug between its slashes
MaxListing == 3      \* deployments of the repository whose two sources are compared
MaxPulls == 3        \* pull requests of the connection one scan reads
MaxRuns == 2         \* workflow runs of one listing
MaxReleases == 2     \* releases of one listing
MaxDays == 1         \* days the --days option looks back
MaxResults == 2      \* results handed to one call of writeValidationFile
MaxCalls == 2        \* calls of writeValidationFile on one validation file
MaxBase == 2         \* entries of the file mergeConfigs merges into
MaxIncoming == 2     \* entries mergeConfigs is given to merge

\* ------------------------------------------------------ program constants
InitialRemaining == 5000
InitialResetDelay == 60
DefaultThreshold == 100
WaitBuffer == 1

Min(a, b) == IF a < b THEN a ELSE b

Methods == {"actions", "deployments", "releases"}
MethodCycle == <<"deployments", "actions", "releases">>
Files == {"metadata", "events", "pulls"}
Absent == [kind |-> "absent"]

\* ------------------------------------------------------------ RateLimiter
\* NaN, which is also the time of an Invalid Date: written as a number that
\* no quota and no time of the model takes
NaN == -1

\* a > b and a <= b on numbers: false when either is NaN
Greater(a, b) == a # NaN /\ b # NaN /\ a > b
AtMost(a, b) == a # NaN /\ b # NaN /\ a <= b

\* A header field as updateFromHeaders sees it: absent, a string (the digits
\* of v, these digits followed by other characters, or no leading digits) or
\* a number.
Missing == [type |-> "undefined", val |-> 0]
StringHeader(v) == [type |-> "string", val |-> v]
TrailingStringHeader(v) == [type |-> "trailing", val |-> v]
BadStringHeader == [type |-> "badstring", val |-> 0]
NumberHeader(v) == [type |-> "number", val |-> v]

\* Number.parseInt(string, 10): the leading digits, NaN when there are none
ParseInt(field) == IF field.type = "badstring" THEN NaN ELSE field.val

\* the value a field of the rate state has after a header field was read
ParsedField(field, prior) ==
  CASE field.type \in {"string", "trailing", "badstring"} ->
         IF ParseInt(field) = NaN THEN prior ELSE ParseInt(field)
    [] field.type = "number" -> field.val
    [] OTHER -> prior

UpdateFromHeaders(rate, headers) ==
  [rate EXCEPT !.remaining = ParsedField(headers.remaining, rate.remaining),
               !.resetAt = ParsedField(headers.reset, rate.resetAt)]

\* the observer collectRepo gives to fetchWithConditional, on the headers it
\* was called with
Observe(rate, observed) ==
  IF observed = <<>> THEN rate ELSE UpdateFromHeaders(rate, observed[1])

\* checkAndWait asks for quota left and for a reset time that has passed
CheckPassesOnlyWhenBoth(rate, t) ==
  Greater(rate.remaining, rate.threshold) /\ AtMost(rate.resetAt, t)

\* checkAndWait returns at once
CheckPasses(rate, t) ==
  Greater(rate.remaining, rate.threshold) \/ AtMost(rate.resetAt, t)

\* the timer is set to the reset time itself
WakeTimeNoBuffer(rate, t) == IF rate.resetAt = NaN THEN t ELSE t + (rate.resetAt - t)

\* the time the timer of checkAndWait is set to: a timer of NaN milliseconds
\* is due at once
WakeTime(rate, t) == IF rate.resetAt = NaN THEN t ELSE t + (rate.resetAt - t + WaitBuffer)

\* ------------------------------------------------------------- upstream
\* The upstream is the same throughout: what it holds for repository i.
Slug(i) == <<"slug", i>>
FullName(i) == <<"full_name", i>>
Etag(i) == [kind |-> "string", val |-> <<"etag", i>>]
LastModified(i) == [kind |-> "string", val |-> <<"last-modified", i>>]
UpstreamEvents(i) == i + 1
UpstreamPulls(i) == i + 2

LowRemaining == DefaultThreshold
\* rate-limit headers a response may carry at time t
RateHeaders(t) ==
  { [remaining |-> Missing, reset |-> Missing],
    [remaining |-> StringHeader(LowRemaining),
     reset |-> StringHeader(Min(t + 1, MaxClock - WaitBuffer))] }

\* the header fields a response can carry, well-formed or not
RemainingFields ==
  {Missing, BadStringHeader, NumberHeader(NaN), StringHeader(LowRemaining),
   StringHeader(LowRemaining + 1), TrailingStringHeader(LowRemaining),
   NumberHeader(LowRemaining + 1)}
ResetFields ==
  {Missing, BadStringHeader, NumberHeader(NaN), TrailingStringHeader(0)}
  \cup {StringHeader(t) : t \in 0 .. (MaxClock - WaitBuffer)}
  \cup {NumberHeader(MaxClock - WaitBuffer), StringHeader(MaxClock + 1)}
AnyHeaders == [remaining : RemainingFields, reset : ResetFields]

\* ------------------------------------------------------------ cache files
\* the cache file is never used
MaybeReadCacheNever(file, refresh) == Absent

\* the cache file is read even when a refresh is forced
MaybeReadCacheAlways(file, refresh) == file

MaybeReadCache(file, refresh) == IF refresh THEN Absent ELSE file

\* a value that is a string, or undefined, or of another type
Undefined == [kind |-> "undefined"]
StringValue(v) == [kind |-> "string", val |-> v]
NotAString == [kind |-> "object", val |-> 0]

\* typeof value === "string" ? value : undefined
StringOrUndefined(value) == IF value.kind = "string" THEN value ELSE Undefined

\* what collectRepo hands to fetchWithConditional as the cached value
CachedMetadata(file) ==
  IF file = Absent THEN Absent
  ELSE [kind |-> "cached", data |-> file.metadata, etag |-> file.etag,
        lastModified |-> file.lastModified]

\* fetchWithConditional: the headers it sends with the request
ConditionalHeaders(cached) ==
  [ifNoneMatch |-> IF cached # Absent /\ cached.etag # Undefined
                     THEN cached.etag ELSE Undefined,
   ifModifiedSince |-> IF cached # Absent /\ cached.lastModified # Undefined
                         THEN cached.lastModified ELSE Undefined]

\* the request resolved: the result built from the response
NetworkResult(response) ==
  [ok |-> TRUE, data |-> response.data, etag |-> StringOrUndefined(response.etag),
   lastModified |-> StringOrUndefined(response.lastModified), source |-> "network",
   observed |-> <<response.headers>>, error |-> Absent]

\* every failure is answered from the cached value when there is one
AnswersCachedAlways(cached, response) == cached # Absent

\* error.status === 304 && cached
AnswersCached(cached, response) == response.status = 304 /\ cached # Absent

\* the observer is not called on the not-modified path
ObservedNever(response) == <<>>

\* if (error.response?.headers) onResponse?.(error.response.headers)
ObservedOnNotModified(response) ==
  IF response.headers # Absent THEN <<response.headers>> ELSE <<>>

\* the cached data is returned with the validators of the 304 response
NotModifiedResultOfResponse(cached, response) ==
  [ok |-> TRUE, data |-> cached.data, etag |-> StringOrUndefined(response.etag),
   lastModified |-> StringOrUndefined(response.lastModified), source |-> "cache",
   observed |-> ObservedOnNotModified(response), error |-> Absent]

\* return { ...cached, source: "cache" }
NotModifiedResult(cached, response) ==
  [ok |-> TRUE, data |-> cached.data, etag |-> cached.etag,
   lastModified |-> cached.lastModified, source |-> "cache",
   observed |-> ObservedOnNotModified(response), error |-> Absent]

\* throw error
Rethrown(response) ==
  [ok |-> FALSE, data |-> Absent, etag |-> Absent, lastModified |-> Absent,
   source |-> "error", observed |-> <<>>, error |-> response]

\* fetchWithConditional: the outcome for an answer to the request; a
\* resolved request is an answer of status 200, a rejected one an error with
\* its status (0 when it has none)
FetchWithConditional(cached, response) ==
  IF response.status = 200 THEN NetworkResult(response)
  ELSE IF AnswersCached(cached, response) THEN NotModifiedResult(cached, response)
  ELSE Rethrown(response)

\* the answers the upstream can give to the metadata request of repository i
MetadataResponses(i, cached, t) ==
  { [status |-> 200, data |-> [fullName |-> FullName(i)], etag |-> Etag(i),
     lastModified |-> LastModified(i), headers |-> h]
      : h \in RateHeaders(t) }
  \cup (IF cached # Absent /\ ConditionalHeaders(cached).ifNoneMatch = Etag(i)
          THEN { [status |-> 304, data |-> Absent, etag |-> Undefined,
                  lastModified |-> Undefined, headers |-> h]
                   : h \in RateHeaders(t) }
          ELSE {})
  \cup { [status |-> 500, data |-> Absent, etag |-> Undefined, lastModified |-> Undefined,
          headers |-> [remaining |-> Missing, reset |-> Missing]] }

Data(v) == [kind |-> "data", val |-> v]

\* what can be handed to fetchWithConditional as the cached value, and the
\* answers its request can get
CachedValues ==
  {Absent} \cup
  [kind : {"cached"}, data : {Data("old"), Data("older")},
   etag : {Undefined, StringValue("old etag")},
   lastModified : {Undefined, StringValue("old date")}]
HeaderSets == {Absent} \cup RateHeaders(0)
FetchAnswers ==
  [status : {200}, data : {Data("fresh")},
   etag : {Undefined, StringValue("new etag"), NotAString},
   lastModified : {Undefined, StringValue("new date")},
   headers : RateHeaders(0)]
  \cup
  [status : {304, 500, 0}, data : {Absent}, etag : {Undefined},
   lastModified : {Undefined}, headers : HeaderSets]

\* ------------------------------------------------ collectReposParallel
\* one worker per repository, whatever the concurrency
WorkerPerRepo(c, len) == IF len = 0 THEN 1 ELSE len

WorkerCount(c, len) == Min(c, IF len = 0 THEN 1 ELSE len)

FailureResult(i) ==
  [kind |-> "result", repo |-> Slug(i), pullRequests |-> 0, deploymentEvents |-> 0,
   cached |-> FALSE]

Summary(fullName, pulls, events, refresh) ==
  [kind |-> "result", repo |-> fullName, pullRequests |-> pulls,
   deploymentEvents |-> events, cached |-> ~refresh]

\* the slot is taken from a counter that does not follow the claimed index
ResultSlotFirst(currentIndex) == 0

\* the slot of the results array a worker writes for the index it claimed
ResultSlot(currentIndex) == currentIndex

RECURSIVE FilterBoolean(_, _, _)
\* results.filter(Boolean) over the slots from..len-1
FilterBoolean(res, from, len) ==
  IF from >= len THEN <<>>
  ELSE (IF res[from] = Absent THEN <<>> ELSE <<res[from]>>) \o FilterBoolean(res, from + 1, len)

\* the counter is read but not advanced
NextIndexStuck(idx) == idx

\* const currentIndex = index++ : the counter after the claim
NextIndex(idx) == idx + 1

ExitedWorker == [pc |-> "exited", cur |-> 0, req |-> "none", api |-> "none",
                 wake |-> 0, metadata |-> Absent, events |-> 0, pulls |-> 0]

\* The loop head of a worker that finds the counter at idx: it leaves the loop,
\* or calls collectRepo, which runs up to the before-hook of its metadata
\* request.
LoopHead(idx, len) ==
  IF idx >= len THEN ExitedWorker
  ELSE [pc |-> "gate", cur |-> idx, req |-> "metadata", api |-> "rest",
        wake |-> 0, metadata |-> Absent, events |-> 0, pulls |-> 0]

RECURSIVE StartWorkers(_, _, _, _)
\* Array.from({ length: workerCount }, () => worker()): the workers start one
\* after the other, each running to its first await. Gives the workers
\* k..count and the counter they leave.
StartWorkers(k, count, idx, len) ==
  IF k > count THEN [pool |-> <<>>, index |-> idx]
  ELSE LET rest == StartWorkers(k + 1, count, NextIndex(idx), len)
       IN [pool |-> <<LoopHead(idx, len)>> \o rest.pool, index |-> rest.index]

\* number of times collectRepo was called for index i by the workers of pool
Calls(pool, i) == Cardinality({w \in DOMAIN pool : pool[w].pc # "exited" /\ pool[w].cur = i})

\* ---------------------------------------- collectDeploymentGraphQLEvents
\* A timestamp string is an ISO string of a time t or not a date at all;
\* new Date(string) is a date of time t or an Invalid Date.
IsoString(t) == [iso |-> TRUE, t |-> t]
NotADate == [iso |-> FALSE, t |-> 0]
NewDate(string) == [valid |-> string.iso, time |-> IF string.iso THEN string.t ELSE 0]

\* a < b on two Dates: false when either is an Invalid Date
DateLess(a, b) == a.valid /\ b.valid /\ a.time < b.time

Null == "<null>"

ToLowerCase(string) ==
  CASE string = "Production" -> "production"
    [] string = "SUCCESS" -> "success"
    [] string = "A" -> "a"
    [] string = "B" -> "b"
    [] OTHER -> string

\* toLowerCase of a string written as the sequence of its characters
LowerCased(string) == [k \in 1 .. Len(string) |-> ToLowerCase(string[k])]

\* options?.environments?.length ? (env) => ... : null, and the same for statuses
HasMatcher(candidates) == Len(candidates) > 0
MatcherAccepts(candidates, value) ==
  /\ value # Null
  /\ \E k \in 1 .. Len(candidates) : ToLowerCase(candidates[k]) = ToLowerCase(value)

\* the cutoff is never taken
NeverOlderThanWindow(createdAt, windowStartDate) == FALSE

\* createdAt < windowStartDate
OlderThanWindow(createdAt, windowStartDate) == DateLess(createdAt, windowStartDate)

\* createdAt > windowEndDate
NewerThanWindow(createdAt, windowEndDate) == DateLess(windowEndDate, createdAt)

\* deployment.statuses.nodes[0]?.state ?? null
StatusState(deployment) == deployment.state

DeploymentEvent(deployment) ==
  [id |-> <<"deployment", deployment.databaseId>>,
   createdAt |-> deployment.createdAt,
   displayTitle |-> IF deployment.environment = Null THEN "unknown"
                    ELSE deployment.environment,
   status |-> StatusState(deployment)]

\* an old node ends the for loop only: the while loop goes on with the next page
RECURSIVE ScanNodesBreaks(_, _, _, _, _)
ScanNodesBreaks(nodes, k, args, pushed, count) ==
  IF k > Len(nodes)
    THEN [deployments |-> pushed, inspected |-> count, returned |-> FALSE]
    ELSE LET deployment == nodes[k]
             createdAt == NewDate(deployment.createdAt)
         IN IF OlderThanWindow(createdAt, NewDate(args.windowStart))
              THEN [deployments |-> pushed, inspected |-> count + 1, returned |-> FALSE]
            ELSE IF \/ NewerThanWindow(createdAt, NewDate(args.windowEnd))
                    \/ /\ HasMatcher(args.environments)
                       /\ ~MatcherAccepts(args.environments, deployment.environment)
                    \/ /\ HasMatcher(args.statuses)
                       /\ ~MatcherAccepts(args.statuses, StatusState(deployment))
              THEN ScanNodesBreaks(nodes, k + 1, args, pushed, count + 1)
            ELSE ScanNodesBreaks(nodes, k + 1, args,
                                 Append(pushed, DeploymentEvent(deployment)), count + 1)

\* The for loop over connection.nodes from node k on: the events pushed, the
\* nodes inspected, and whether the loop left the function at an old node.
RECURSIVE ScanNodes(_, _, _, _, _)
ScanNodes(nodes, k, args, pushed, count) ==
  IF k > Len(nodes)
    THEN [deployments |-> pushed, inspected |-> count, returned |-> FALSE]
    ELSE LET deployment == nodes[k]
             createdAt == NewDate(deployment.createdAt)
         IN IF OlderThanWindow(createdAt, NewDate(args.windowStart))
              THEN [deployments |-> pushed, inspected |-> count + 1, returned |-> TRUE]
            ELSE IF \/ NewerThanWindow(createdAt, NewDate(args.windowEnd))
                    \/ /\ HasMatcher(args.environments)
                       /\ ~MatcherAccepts(args.environments, deployment.environment)
                    \/ /\ HasMatcher(args.statuses)
                       /\ ~MatcherAccepts(args.statuses, StatusState(deployment))
              THEN ScanNodes(nodes, k + 1, args, pushed, count + 1)
            ELSE ScanNodes(nodes, k + 1, args, Append(pushed, DeploymentEvent(deployment)),
                           count + 1)

\* what the upstream can put in a page
Timestamps == {IsoString(t) : t \in 0 .. MaxTime} \cup {NotADate}
DeploymentNodes ==
  [databaseId : {0}, createdAt : Timestamps, environment : {Null, "Production"},
   state : {Null, "SUCCESS"}]
RECURSIVE SeqsUpTo(_, _)
SeqsUpTo(S, len) ==
  IF len = 0 THEN {<<>>}
  ELSE LET shorter == SeqsUpTo(S, len - 1)
       IN shorter \cup {Append(q, x) : q \in {p \in shorter : Len(p) = len - 1}, x \in S}
Pages == [nodes : SeqsUpTo(DeploymentNodes, MaxPageNodes), hasNextPage : BOOLEAN]

NoScan == [pc |-> "none"]
NoFetch == [pc |-> "none"]
NoLimiter == [pc |-> "none"]
NoBoot == [pc |-> "none"]
NoRest == [pc |-> "none"]
NoPulls == [pc |-> "none"]
NoRuns == [pc |-> "none"]
NoReleases == [pc |-> "none"]
NoValidation == [pc |-> "none"]
NoPromote == [pc |-> "none"]

\* the scan when its first query is in flight
ScanStarted(windowStart, windowEnd, environments, statuses) ==
  [pc |-> "query",
   args |-> [windowStart |-> windowStart, windowEnd |-> windowEnd,
             environments |-> environments, statuses |-> statuses],
   deployments |-> <<>>, cursor |-> 0, inspected |-> 0, stopped |-> "no",
   page |-> [size |-> 0, hasNextPage |-> FALSE, old |-> 0]]

\* the position in a page of its first node created before time t, 0 if none
FirstOld(nodes, t) ==
  LET old == {k \in 1 .. Len(nodes) : nodes[k].createdAt.iso /\ nodes[k].createdAt.t < t}
  IN IF old = {} THEN 0 ELSE CHOOSE k \in old : \A j \in old : k <= j

\* ------------------------------------------- collectDeploymentApiEvents
\* a timestamp field that is null or undefined, and new Date(0)
NoTimestamp == [iso |-> FALSE, t |-> -1]
Epoch == [iso |-> TRUE, t |-> -1]

\* a ?? b on timestamp fields
Coalesce(a, b) == IF a # NoTimestamp THEN a ELSE b

\* the filter is an exact comparison
RestFilterAcceptsExactly(allowed, value) ==
  /\ value \notin {Null, ""}
  /\ \E k \in 1 .. Len(allowed) : allowed[k] = value

\* the function that buildEnvironmentFilter and buildStatusFilter return
RestFilterAccepts(allowed, value) ==
  /\ value \notin {Null, ""}
  /\ \E k \in 1 .. Len(allowed) : ToLowerCase(allowed[k]) = ToLowerCase(value)

\* statuses[0]?.state ?? null of the answer of listDeploymentStatuses
LatestState(statuses) == IF Len(statuses) = 0 THEN Null ELSE statuses[1].state

RestDeploymentEvent(deployment, statusState) ==
  [id |-> <<"deployment", deployment.id>>,
   createdAt |-> Coalesce(deployment.created_at, deployment.updated_at),
   displayTitle |-> IF deployment.environment = Null THEN "unknown"
                    ELSE deployment.environment,
   status |-> statusState]

\* The for loop over response.data from record k on: the events pushed, the
\* records inspected, and whether the loop was left at an old record.
RECURSIVE RestScanNodes(_, _, _, _, _)
RestScanNodes(data, k, args, pushed, count) ==
  IF k > Len(data)
    THEN [deployments |-> pushed, inspected |-> count, broke |-> FALSE]
    ELSE LET deployment == data[k]
             createdAtRaw == Coalesce(deployment.created_at, deployment.updated_at)
             createdAt == NewDate(createdAtRaw)
             statusState == LatestState(deployment.statuses)
         IN IF createdAtRaw = NoTimestamp
              THEN RestScanNodes(data, k + 1, args, pushed, count + 1)
            ELSE IF OlderThanWindow(createdAt, NewDate(args.windowStart))
              THEN [deployments |-> pushed, inspected |-> count + 1, broke |-> TRUE]
            ELSE IF \/ NewerThanWindow(createdAt, NewDate(args.windowEnd))
                    \/ /\ HasMatcher(args.environments)
                       /\ ~RestFilterAccepts(args.environments, deployment.environment)
                    \/ /\ HasMatcher(args.statuses)
                       /\ ~RestFilterAccepts(args.statuses, statusState)
              THEN RestScanNodes(data, k + 1, args, pushed, count + 1)
            ELSE RestScanNodes(data, k + 1, args,
                               Append(pushed, RestDeploymentEvent(deployment, statusState)),
                               count + 1)

\* the pages are read to the end of the listing
OldestNeverEndsIteration(data, args) == FALSE

\* the test on oldestInPage after the for loop: the iteration over the pages ends
OldestEndsIteration(data, args) ==
  /\ Len(data) > 0
  /\ LET oldestInPage == data[Len(data)]
         oldestCreated ==
           NewDate(Coalesce(Coalesce(oldestInPage.created_at, oldestInPage.updated_at), Epoch))
     IN DateLess(oldestCreated, NewDate(args.windowStart))

\* What the upstream holds: the deployments of a repository in descending
\* order of creation, each with its latest status, served in pages.
RECURSIVE DescendingTimes(_)
DescendingTimes(len) ==
  IF len = 0 THEN {<<>>}
  ELSE {Append(q, t) : q \in DescendingTimes(len - 1), t \in 0 .. MaxTime} \cap
       {q \in [1 .. len -> 0 .. MaxTime] : \A k \in 1 .. (len - 1) : q[k] >= q[k + 1]}
Listings ==
  UNION {{[k \in 1 .. len |->
             [databaseId |-> k, createdAt |-> IsoString(times[k]),
              environment |-> environments[k], state |-> states[k]]]
            : times \in DescendingTimes(len),
              environments \in [1 .. len -> {Null, "Production"}],
              states \in [1 .. len -> {Null, "SUCCESS"}]}
         : len \in 0 .. MaxListing}

\* page p of a listing served in pages of `size`
PageOf(listing, size, p) ==
  SubSeq(listing, (p - 1) * size + 1, Min(p * size, Len(listing)))
HasNextPage(listing, size, p) == p * size < Len(listing)

\* a deployment as the REST listing gives it, with the answer of
\* listDeploymentStatuses for it
RestRecord(d) ==
  [id |-> d.databaseId, created_at |-> d.createdAt, updated_at |-> d.createdAt,
   environment |-> d.environment,
   statuses |-> IF d.state = Null THEN <<>> ELSE <<[state |-> d.state]>>]

\* ---------------------------------------------------- isBotAuthorLogin
\* A login is a string, written as the sequence of its characters; the empty
\* sequence stands for null and for the empty string alike.
BotSuffix == <<"[", "b", "o", "t", "]">>

\* string.endsWith(suffix), string.includes(pattern)
EndsWith(string, suffix) ==
  /\ Len(string) >= Len(suffix)
  /\ SubSeq(string, Len(string) - Len(suffix) + 1, Len(string)) = suffix
Includes(string, pattern) ==
  \E k \in 1 .. (Len(string) + 1) :
    /\ k + Len(pattern) - 1 <= Len(string)
    /\ SubSeq(string, k, k + Len(pattern) - 1) = pattern

\* normalizeBotPatterns: lower-cased, the empty ones dropped
NormalizeBotPatterns(patterns) ==
  SelectSeq([k \in 1 .. Len(patterns) |-> LowerCased(patterns[k])],
            LAMBDA pattern : Len(pattern) > 0)

\* only the suffix makes a bot
IsBotBySuffixOnly(login, patterns) ==
  login # <<>> /\ EndsWith(LowerCased(login), BotSuffix)

IsBotAuthorLogin(login, patterns) ==
  IF login = <<>> THEN FALSE
  ELSE LET normalized == LowerCased(login)
       IN \/ EndsWith(normalized, BotSuffix)
          \/ \E k \in 1 .. Len(patterns) : Includes(normalized, patterns[k])

\* ------------------------------------------------- collectPullRequests
\* a page counts as stale as soon as one of its nodes is
SomeMergedBeforeWindow(nodes, windowStart) ==
  \E k \in 1 .. Len(nodes) :
    \/ nodes[k].mergedAt = NoTimestamp
    \/ DateLess(NewDate(nodes[k].mergedAt), NewDate(windowStart))

\* no page counts as stale
NoneMergedBeforeWindow(nodes, windowStart) == FALSE

\* connection.nodes.every(...): unmerged counts as old
AllMergedBeforeWindow(nodes, windowStart) ==
  \A k \in 1 .. Len(nodes) :
    \/ nodes[k].mergedAt = NoTimestamp
    \/ DateLess(NewDate(nodes[k].mergedAt), NewDate(windowStart))

\* bot authors are set apart whatever the option says
IsBotAlways(login, options) == IsBotAuthorLogin(login, options.botAuthorPatterns)

\* !options.includeBotPRs && isBotAuthorLogin(authorLogin, botPatterns)
IsBot(login, options) ==
  ~options.includeBotPRs /\ IsBotAuthorLogin(login, options.botAuthorPatterns)

\* The for loop over connection.nodes from node k on: the two lists after it.
RECURSIVE PullsLoop(_, _, _, _, _)
PullsLoop(nodes, k, options, results, excludedBots) ==
  IF k > Len(nodes) THEN [results |-> results, excludedBots |-> excludedBots]
  ELSE LET pr == nodes[k]
           authorLogin == pr.author
       IN IF pr.mergedAt = NoTimestamp
            THEN PullsLoop(nodes, k + 1, options, results, excludedBots)
          ELSE IF IsBot(authorLogin, options)
            THEN PullsLoop(nodes, k + 1, options, results,
                           Append(excludedBots,
                                  [number |-> pr.number, authorLogin |-> authorLogin]))
          ELSE IF DateLess(NewDate(pr.mergedAt), NewDate(options.windowStart))
            THEN PullsLoop(nodes, k + 1, options, results, excludedBots)
          ELSE PullsLoop(nodes, k + 1, options,
                         Append(results, [number |-> pr.number, mergedAt |-> pr.mergedAt,
                                          authorLogin |-> authorLogin]),
                         excludedBots)

\* What the upstream holds: the pull requests of the connection, numbered,
\* each merged at some time or not merged, by an author.
Authors == {<<"A", "b">>, <<"b">>, <<"b">> \o BotSuffix}
MergeTimes == {NoTimestamp} \cup {IsoString(t) : t \in 0 .. MaxTime}
Connections ==
  UNION {{[k \in 1 .. len |->
             [number |-> k, mergedAt |-> merged[k], author |-> authors[k]]]
            : merged \in [1 .. len -> MergeTimes], authors \in [1 .. len -> Authors]}
         : len \in 0 .. MaxPulls}

\* the --bot-author-patterns option as given
PatternOptions == {<<>>, <<<<"A", "B">>>>, <<<<>>, <<"B">>>>}

\* ------------------------------------------------ collectActionsEvents
\* A name, a title and a keyword are written as the sequences of their
\* characters, a branch as the sequence of its parts between slashes; a
\* head_branch that is null is the empty sequence, which is as falsy as null.
RefsHeads == <<"refs", "heads">>

NormalizeBranchAsGiven(branch) == {branch}

\* normalizeBranchCandidates: the branch as given, without a leading
\* "refs/heads/", and with one
NormalizeBranchCandidates(branch) ==
  LET normalized == branch
      trimmed == IF Len(normalized) > 2 /\ SubSeq(normalized, 1, 2) = RefsHeads
                   THEN SubSeq(normalized, 3, Len(normalized))
                   ELSE normalized
  IN {branch, normalized, trimmed, RefsHeads \o trimmed}

Digits == <<"0", "1", "2", "3", "4", "5", "6", "7", "8", "9">>

RECURSIVE String(_)
\* String(number) of a natural number: its decimal digits
String(number) ==
  IF number < 10 THEN <<Digits[number + 1]>>
  ELSE String(number \div 10) \o <<Digits[(number % 10) + 1]>>

FinishedWhateverConclusion(run) == run.status = "completed"

\* the run is not skipped by: run.status !== "completed" || run.conclusion !== "success"
Finished(run) == run.status = "completed" /\ run.conclusion = "success"

\* createdAt < start || createdAt > end
OutsideWindow(run, windowStart, windowEnd) ==
  \/ DateLess(NewDate(run.created_at), NewDate(windowStart))
  \/ DateLess(NewDate(windowEnd), NewDate(run.created_at))

\* `${run.name ?? ""} ${run.display_title ?? ""}`.toLowerCase()
Target(run) == LowerCased(run.name \o <<" ">> \o run.display_title)

RECURSIVE Find(_, _, _)
\* keywords.find((keyword) => target.includes(keyword)) from keyword k on:
\* the first keyword the target includes, or undefined
Find(keywords, target, k) ==
  IF k > Len(keywords) THEN [found |-> FALSE, keyword |-> <<>>]
  ELSE IF Includes(target, keywords[k]) THEN [found |-> TRUE, keyword |-> keywords[k]]
  ELSE Find(keywords, target, k + 1)

\* !matchedKeyword: undefined and the empty string are both falsy
NoKeywordMatch(keywords, target) ==
  LET matchedKeyword == Find(keywords, target, 1)
  IN ~matchedKeyword.found \/ matchedKeyword.keyword = <<>>

\* allowedEvents && allowedEvents.length > 0 && !allowedEvents.includes(eventName)
EventNotAllowed(allowedEvents, run) ==
  /\ Len(allowedEvents) > 0
  /\ \A k \in 1 .. Len(allowedEvents) : allowedEvents[k] # ToLowerCase(run.event)

\* branchCandidates && (!headBranch || !branchCandidates.has(headBranch))
BranchNotMatching(branch, run) ==
  /\ branch # <<>>
  /\ \/ run.head_branch = <<>>
     \/ run.head_branch \notin NormalizeBranchCandidates(branch)

\* the event pushed for a run; head_sha, updated_at and the metadata are
\* copied as they are and left out
ActionsEvent(run) ==
  [id |-> String(run.id), source |-> "actions", name |-> run.name,
   displayTitle |-> run.display_title, event |-> run.event, status |-> run.status,
   conclusion |-> run.conclusion, createdAt |-> run.created_at,
   branch |-> run.head_branch]

RECURSIVE SelectRuns(_, _, _, _, _, _)
\* for (const run of runs) from run k on, `selected` being what was pushed
SelectRuns(listing, k, windowStart, windowEnd, options, selected) ==
  IF k > Len(listing) THEN selected
  ELSE LET run == listing[k]
           keywords == [j \in 1 .. Len(options.workflowKeywords) |->
                          LowerCased(options.workflowKeywords[j])]
           allowedEvents == [j \in 1 .. Len(options.events) |->
                               ToLowerCase(options.events[j])]
           skipped == \/ ~Finished(run)
                      \/ run.created_at = NoTimestamp
                      \/ OutsideWindow(run, windowStart, windowEnd)
                      \/ NoKeywordMatch(keywords, Target(run))
                      \/ EventNotAllowed(allowedEvents, run)
                      \/ BranchNotMatching(options.branch, run)
       IN SelectRuns(listing, k + 1, windowStart, windowEnd, options,
                     IF skipped THEN selected ELSE Append(selected, ActionsEvent(run)))

\* What the upstream holds: a workflow has a name and its runs a title; the
\* runs of one listing are those of one workflow for one event on one
\* branch, each with its own state and time of creation.
Workflows ==
  {[workflow_id |-> 1, name |-> <<"A">>, display_title |-> <<>>],
   [workflow_id |-> 2, name |-> <<"b">>, display_title |-> <<"a">>],
   [workflow_id |-> 3, name |-> <<>>, display_title |-> <<"B">>]}
RunStates ==
  {[status |-> "completed", conclusion |-> "success"],
   [status |-> "completed", conclusion |-> "failure"],
   [status |-> "in_progress", conclusion |-> Null]}
RunListings ==
  UNION {{[k \in 1 .. len |->
             [id |-> 9 + k, workflow_id |-> workflow.workflow_id, name |-> workflow.name,
              display_title |-> workflow.display_title, event |-> event,
              head_branch |-> branch, status |-> states[k].status,
              conclusion |-> states[k].conclusion, created_at |-> IsoString(times[k])]]
            : workflow \in Workflows, event \in {"push", "schedule"},
              branch \in {<<>>, <<"main">>, RefsHeads \o <<"main">>, <<"dev">>},
              states \in [1 .. len -> RunStates], times \in [1 .. len -> 0 .. MaxTime]}
         : len \in 0 .. MaxRuns}

\* the actions options of a repository: keywords, an optional workflow id
\* (a sequence of at most one number), events and a branch
ActionsOptions ==
  [workflowKeywords : {<<>>, <<<<"B">>>>, <<<<"a">>, <<"b", " ">>>>, <<<<>>, <<"a">>>>},
   workflowId : {<<>>, <<2>>},
   events : {<<>>, <<"push">>},
   branch : {<<>>, <<"main">>, RefsHeads \o <<"main">>}]

\* ------------------------------------------------- collectReleaseEvents
\* A tag and a tag pattern are written as the sequences of their
\* characters, over "v", "1", ".", "^" and "("; null and "" are <<>>.
\* new RegExp(pattern) throws for a pattern with a group that is opened
\* and never closed, the only patterns of this alphabet that do not compile.
Compiles(pattern) == \A k \in 1 .. Len(pattern) : pattern[k] # "("

\* regex.test(tag) of a compiled pattern: "^" in front ties the match to
\* the start of the tag, "." stands for any character, the others for
\* themselves
RegexTest(pattern, tag) ==
  LET anchored == pattern # <<>> /\ pattern[1] = "^"
      body == IF anchored THEN Tail(pattern) ELSE pattern
      MatchesAt(k) == /\ k + Len(body) - 1 <= Len(tag)
                      /\ \A j \in 1 .. Len(body) :
                           body[j] = "." \/ body[j] = tag[k + j - 1]
  IN IF anchored THEN MatchesAt(1)
     ELSE \E k \in 1 .. (Len(tag) + 1) : MatchesAt(k)

MatchesTagUncaught(tag, pattern) ==
  IF pattern = <<>> THEN [raised |-> FALSE, value |-> TRUE]
  ELSE IF tag = <<>> THEN [raised |-> FALSE, value |-> FALSE]
  ELSE IF Compiles(pattern) THEN [raised |-> FALSE, value |-> RegexTest(pattern, tag)]
  ELSE [raised |-> TRUE, value |-> FALSE]

\* matchesTag: what it returns, and whether an exception leaves it
MatchesTag(tag, pattern) ==
  IF pattern = <<>> THEN [raised |-> FALSE, value |-> TRUE]
  ELSE IF tag = <<>> THEN [raised |-> FALSE, value |-> FALSE]
  ELSE IF Compiles(pattern) THEN [raised |-> FALSE, value |-> RegexTest(pattern, tag)]
  ELSE [raised |-> FALSE, value |-> Includes(tag, pattern)]

IncludePrereleasesAlways(options) == TRUE

\* options?.includePrereleases ?? false, the option being a sequence of at
\* most one boolean
IncludePrereleases(options) ==
  IF options.includePrereleases = <<>> THEN FALSE ELSE options.includePrereleases[1]

\* the event pushed for a release; name, target_commitish, html_url and
\* author are copied as they are and left out
ReleaseEvent(release, relevantTimestamp) ==
  [id |-> <<"release", ":">> \o String(release.id), source |-> "releases",
   event |-> IF release.prerelease THEN "prerelease" ELSE "release",
   status |-> IF release.draft THEN "draft"
              ELSE IF release.prerelease THEN "prerelease" ELSE "released",
   conclusion |-> IF release.draft THEN "draft" ELSE "released",
   createdAt |-> Coalesce(release.created_at, relevantTimestamp),
   completedAt |-> Coalesce(release.published_at, release.created_at),
   tag |-> release.tag_name]

ReleaseNeverTooOld(publishedAt, windowStartDate) == FALSE

\* publishedAt < windowStartDate, which makes the loop go on to the next release
ReleaseTooOld(publishedAt, windowStartDate) == DateLess(publishedAt, windowStartDate)

RECURSIVE ReleasesLoop(_, _, _, _, _, _, _)
\* for (const release of releases) from release k on: the events pushed,
\* the number of releases the loop body was entered for, and whether
\* an exception left the loop
ReleasesLoop(releases, k, windowStart, windowEnd, options, events, inspected) ==
  IF k > Len(releases) THEN [events |-> events, inspected |-> inspected, raised |-> FALSE]
  ELSE LET release == releases[k]
           relevantTimestamp == Coalesce(release.published_at, release.created_at)
           publishedAt == NewDate(relevantTimestamp)
           tagged == MatchesTag(release.tag_name, options.tagPattern)
           skipped == \/ relevantTimestamp = NoTimestamp
                      \/ ReleaseTooOld(publishedAt, NewDate(windowStart))
                      \/ DateLess(NewDate(windowEnd), publishedAt)
                      \/ (~IncludePrereleases(options) /\ release.prerelease)
       IN IF skipped
            THEN ReleasesLoop(releases, k + 1, windowStart, windowEnd, options, events,
                              inspected + 1)
          ELSE IF tagged.raised
            THEN [events |-> events, inspected |-> inspected + 1, raised |-> TRUE]
          ELSE ReleasesLoop(releases, k + 1, windowStart, windowEnd, options,
                            IF tagged.value
                              THEN Append(events, ReleaseEvent(release, relevantTimestamp))
                              ELSE events,
                            inspected + 1)

\* What the upstream holds: the releases of the repository, newest created
\* first; a draft is a release that is not published.
ReleaseTimes == {NoTimestamp} \cup {IsoString(t) : t \in 0 .. MaxTime}
Tags == {<<>>, <<"v", "1">>, <<"1", "v", "(">>}
ReleaseListings ==
  UNION {{[k \in 1 .. len |->
             [id |-> 9 + k, created_at |-> created[k], published_at |-> published[k],
              draft |-> published[k] = NoTimestamp, prerelease |-> prerelease[k],
              tag_name |-> tags[k]]]
            : created \in {c \in [1 .. len -> ReleaseTimes] :
                             \A i, j \in 1 .. len :
                               (i < j /\ c[i] # NoTimestamp /\ c[j] # NoTimestamp)
                                 => c[i].t >= c[j].t},
              published \in [1 .. len -> ReleaseTimes],
              prerelease \in [1 .. len -> BOOLEAN], tags \in [1 .. len -> Tags]}
         : len \in 0 .. MaxReleases}

\* the releases options of a repository
ReleasesOptions ==
  [includePrereleases : {<<>>, <<FALSE>>, <<TRUE>>},
   tagPattern : {<<>>, <<"v", ".">>, <<"^", "v">>, <<"(">>}]

\* -------------------------------------------------- writeValidationFile
\* A JSON file of entries is there or not; a slug is the sequence of its
\* characters.
NoFile == [exists |-> FALSE, entries |-> <<>>]
JsonFile(entries) == [exists |-> TRUE, entries |-> entries]

\* the lower-cased slugs of the entries, the empty ones dropped
EntrySlugs(entries) ==
  {LowerCased(entries[k].slug) : k \in 1 .. Len(entries)} \ {<<>>}

\* loadExistingSlugs: the slugs of the sample file, none when it cannot be read
LoadExistingSlugs(sample) == IF sample.exists THEN EntrySlugs(sample.entries) ELSE {}

\* toValidationEntry; the options of the method are left out
ToValidationEntry(result) == [slug |-> result.fullName, method |-> result.recommendedMethod]

IsKnownInSampleOnly(slug, sampleSlugs, existingValidationSlugs) == slug \in sampleSlugs

\* sampleSlugs.has(slug) || existingValidationSlugs.has(slug)
IsKnown(slug, sampleSlugs, existingValidationSlugs) ==
  slug \in sampleSlugs \/ slug \in existingValidationSlugs

RECURSIVE Additions(_, _, _, _, _, _)
\* for (const item of accepted) from item k on
Additions(accepted, k, sampleSlugs, existingValidationSlugs, additions, skipped) ==
  IF k > Len(accepted) THEN [additions |-> additions, skipped |-> skipped]
  ELSE LET slug == LowerCased(accepted[k].fullName)
       IN IF IsKnown(slug, sampleSlugs, existingValidationSlugs)
            THEN Additions(accepted, k + 1, sampleSlugs, existingValidationSlugs, additions,
                           skipped + 1)
          ELSE Additions(accepted, k + 1, sampleSlugs, existingValidationSlugs \cup {slug},
                         Append(additions, ToValidationEntry(accepted[k])), skipped)

IsAccepted(item) == item.status = "accepted"

\* writeValidationFile: the validation file after the call and what it returns
WriteValidationFile(results, append, sample, file) ==
  LET accepted == SelectSeq(results, IsAccepted)
      sampleSlugs == LoadExistingSlugs(sample)
      existingEntries == IF append /\ file.exists THEN file.entries ELSE <<>>
      loop == Additions(accepted, 1, sampleSlugs, EntrySlugs(existingEntries), <<>>, 0)
      payload == IF append THEN existingEntries \o loop.additions ELSE loop.additions
  IN IF Len(accepted) = 0 THEN [file |-> file, written |-> 0, skipped |-> 0]
     ELSE IF Len(loop.additions) = 0
       THEN [file |-> file, written |-> 0, skipped |-> Len(accepted)]
     ELSE [file |-> JsonFile(payload), written |-> Len(loop.additions),
           skipped |-> loop.skipped]

\* the results of a discovery
RecommendationResults ==
  UNION {[1 .. len -> [fullName : {<<"a">>, <<"A">>, <<"b">>},
                       status : {"accepted", "excluded"},
                       recommendedMethod : {"actions", "releases"}]]
         : len \in 0 .. MaxResults}

\* ------------------------------------------------- repository entries
\* A slug is a string, written as the sequence of its characters.
Segments == {<<>>, <<"a">>, <<"A">>, <<"a", ".">>, <<"a", "_">>}

RECURSIVE Join(_)
\* the segments with a slash between them
Join(segments) ==
  IF Len(segments) = 1 THEN segments[1]
  ELSE segments[1] \o <<"/">> \o Join(Tail(segments))

\* the slugs a repository entry can be
Slugs ==
  {Join(segments) : segments \in UNION {[1 .. len -> Segments] : len \in 1 .. MaxSegments}}

RECURSIVE Split(_)
\* string.split("/")
Split(string) ==
  IF string = <<>> THEN <<<<>>>>
  ELSE LET rest == Split(Tail(string))
       IN IF Head(string) = "/" THEN <<<<>>>> \o rest
          ELSE <<<<Head(string)>> \o rest[1]>> \o Tail(rest)

\* normalizeRepoSlug: const [owner, name] = slug.split("/"), and the throw
\* when either is empty or missing
NormalizeRepoSlug(slug) ==
  LET parts == Split(slug)
  IN IF parts[1] = <<>> \/ Len(parts) < 2 \/ parts[2] = <<>>
       THEN [ok |-> FALSE, owner |-> <<>>, name |-> <<>>]
       ELSE [ok |-> TRUE, owner |-> parts[1], name |-> parts[2]]

\* toRepoConfig of an entry that is a string
ToRepoConfig(entry) ==
  LET parsed == NormalizeRepoSlug(entry)
  IN [ok |-> entry # <<>> /\ parsed.ok, slug |-> entry, owner |-> parsed.owner,
      name |-> parsed.name]

\* position of the config with this key in a sequence of configs, 0 if none
RECURSIVE KeyIndex(_, _, _)
KeyIndex(configs, key, k) ==
  IF k > Len(configs) THEN 0
  ELSE IF LowerCased(configs[k].slug) = key THEN k
  ELSE KeyIndex(configs, key, k + 1)

\* mergeRepoEntries from entry k on, repoMap.values() being `merged` so far:
\* a Map keeps the place of a key's first insertion and its last value
RECURSIVE MergeRepoEntries(_, _, _)
MergeRepoEntries(entries, k, merged) ==
  IF k > Len(entries) THEN [ok |-> TRUE, configs |-> merged]
  ELSE LET repoConfig == ToRepoConfig(entries[k])
           at == KeyIndex(merged, LowerCased(repoConfig.slug), 1)
       IN IF ~repoConfig.ok THEN [ok |-> FALSE, configs |-> <<>>]
          ELSE MergeRepoEntries(entries, k + 1,
                                IF at = 0 THEN Append(merged, repoConfig)
                                ELSE [merged EXCEPT ![at] = repoConfig])

\* The --days option after Number.parseInt(value, 10): a whole number of
\* days, negative ones included, or NaN; the default is a number too.  The
\* clock of a startup is counted in days.
DaysOptions == {[nan |-> FALSE, val |-> d] : d \in (0 - 1) .. MaxDays} \cup {[nan |-> TRUE, val |-> 0]}

\* new Date(Date.now() - options.days * 24 * 60 * 60 * 1000) as an ISO string
WindowStartIso(clock, days) == IsoString(clock - days.val)

\* replace(/[^a-z0-9_\-]/gi, "_")
Sanitized(string) ==
  [k \in 1 .. Len(string) |->
     IF string[k] \in {"a", "A", "_", "-"} THEN string[k] ELSE "_"]

\* ensureRepoDir: the directory of a repository below the output directory
EnsureRepoDir(owner, name) == Sanitized(owner) \o <<"_", "_">> \o Sanitized(name)

\* ----------------------------------------------------------- mergeConfigs
RECURSIVE TrimStart(_)
TrimStart(string) ==
  IF string # <<>> /\ Head(string) = " " THEN TrimStart(Tail(string)) ELSE string

RECURSIVE TrimEnd(_)
TrimEnd(string) ==
  IF string # <<>> /\ string[Len(string)] = " "
    THEN TrimEnd(SubSeq(string, 1, Len(string) - 1))
    ELSE string

\* slug.trim()
Trim(string) == TrimEnd(TrimStart(string))

\* normalizeSlug: the trimmed slug, or the throw when it holds no slash
NormalizeSlug(slug) ==
  LET trimmed == Trim(slug)
  IN [ok |-> Includes(trimmed, <<"/">>), slug |-> trimmed]

\* the place of a character in the collation of localeCompare: the space
\* before the punctuation before the letters
CharRank(char) ==
  CASE char = " " -> 0
    [] char = "/" -> 1
    [] char = "a" -> 2
    [] OTHER -> 3

RECURSIVE LocaleCompare(_, _)
\* a.localeCompare(b) for two lower-cased strings: negative, zero or positive
LocaleCompare(a, b) ==
  IF a = <<>> /\ b = <<>> THEN 0
  ELSE IF a = <<>> THEN 0 - 1
  ELSE IF b = <<>> THEN 1
  ELSE IF CharRank(Head(a)) # CharRank(Head(b)) THEN CharRank(Head(a)) - CharRank(Head(b))
  ELSE LocaleCompare(Tail(a), Tail(b))

RECURSIVE InsertSorted(_, _)
\* the entry put after the last entry of a sorted list that does not
\* compare greater than it, as a stable sort places it
InsertSorted(sorted, entry) ==
  IF sorted = <<>> THEN <<entry>>
  ELSE LET last == sorted[Len(sorted)]
       IN IF LocaleCompare(LowerCased(last.slug), LowerCased(entry.slug)) <= 0
            THEN Append(sorted, entry)
          ELSE Append(InsertSorted(SubSeq(sorted, 1, Len(sorted) - 1), entry), last)

SortConfigsAsGiven(configs) == configs

RECURSIVE SortConfigs(_)
\* sortConfigs: a sorted copy, by the lower-cased slug
SortConfigs(configs) ==
  IF configs = <<>> THEN <<>>
  ELSE InsertSorted(SortConfigs(SubSeq(configs, 1, Len(configs) - 1)), configs[Len(configs)])

RECURSIVE BaseMap(_, _, _)
\* existingMap after the loop over base from item k on: a Map keeps the
\* place of a key's first insertion and its last value
BaseMap(base, k, existingMap) ==
  IF k > Len(base) THEN existingMap
  ELSE LET at == KeyIndex(existingMap, LowerCased(base[k].slug), 1)
       IN BaseMap(base, k + 1,
                  IF at = 0 THEN Append(existingMap, base[k])
                  ELSE [existingMap EXCEPT ![at] = base[k]])

RECURSIVE MergeIncoming(_, _, _, _, _)
\* the loop over incoming from candidate k on
MergeIncoming(incoming, k, existingMap, added, skipped) ==
  IF k > Len(incoming)
    THEN [ok |-> TRUE, merged |-> SortConfigs(existingMap), added |-> added,
          skipped |-> skipped]
  ELSE LET normalized == NormalizeSlug(incoming[k].slug)
           key == LowerCased(normalized.slug)
           entry == [incoming[k] EXCEPT !.slug = normalized.slug]
       IN IF ~normalized.ok
            THEN [ok |-> FALSE, merged |-> <<>>, added |-> <<>>, skipped |-> <<>>]
          ELSE IF KeyIndex(existingMap, key, 1) # 0
            THEN MergeIncoming(incoming, k + 1, existingMap, added,
                               Append(skipped, normalized.slug))
          ELSE MergeIncoming(incoming, k + 1, Append(existingMap, entry),
                             Append(added, entry), skipped)

\* mergeConfigs(base, incoming)
MergeConfigs(base, incoming) == MergeIncoming(incoming, 1, BaseMap(base, 1, <<>>), <<>>, <<>>)

\* the entries of a configuration file and of a validation file; a
\* configuration file holds no two entries with the same lower-cased slug
ConfigEntries(slugs) == [slug : slugs, method : {"releases", "actions"}]
BaseSlugs == {<<"a", "/", "a">>, <<"B", "/", "a">>, <<" ", "b", "/", "a">>}
IncomingSlugs ==
  {<<"a", "/", "a">>, <<"A", "/", "a">>, <<"b", "/", "a">>, <<"b", "/", "a", " ">>, <<"a">>}
BaseConfigs ==
  {base \in UNION {[1 .. len -> ConfigEntries(BaseSlugs)] : len \in 0 .. MaxBase} :
     \A i, j \in 1 .. Len(base) :
       i # j => LowerCased(base[i].slug) # LowerCased(base[j].slug)}
IncomingConfigs ==
  UNION {[1 .. len -> ConfigEntries(IncomingSlugs)] : len \in 0 .. MaxIncoming}

\* ------------------------------------------------------------- the state
VARIABLES
  now,          \* the clock
  rate,         \* the RateLimiter of this process run
  rerun,        \* this process run follows an earlier one on the same output directory
  n,            \* repoConfigs.length
  concurrency,
  method,       \* method of each repository config
  repoDir,      \* the output directory of each repository config
  useGraphql,   \* USE_GRAPHQL_DEPLOYMENTS is not "false"
  forceRefresh, \* runtime.forceRefresh
  windowEnd,    \* runtime.windowEnd
  index,        \* the shared counter of collectReposParallel
  workers,      \* the workers of the pool
  results,      \* the results array
  main,         \* "running" | "returned"
  out,          \* the array collectReposParallel returned
  disk,         \* the artifacts of each repository's directory
  stage,        \* where collectRepo stands for each repository
  collects,     \* calls of collectRepo per index in this run
  written,      \* files written per repository in this run
  sourced,      \* sources called per repository in this run
  ungated,      \* kinds of upstream calls sent without a checkAndWait before
  unobserved,   \* kinds of responses whose headers never reached updateFromHeaders
  before,       \* the artifacts when this run started, and forceRefresh of the run before
  scan,         \* one call of collectDeploymentGraphQLEvents: its arguments and locals
  fetch,        \* one call of fetchWithConditional: its arguments and its outcome
  limiter,      \* a RateLimiter on its own, its clock and one caller of checkAndWait
  boot,         \* run() from its start to the call of collectReposParallel
  rest,         \* one call of collectDeploymentApiEvents, and the listing it reads
  prs,          \* one call of collectPullRequests, and the connection it reads
  runs,         \* one call of collectActionsEvents, and the runs it reads
  rel,          \* one call of collectReleaseEvents, and the releases it reads
  validation,   \* one call of writeValidationFile, and the files it reads and writes
  promote       \* one call of mergeConfigs, and a second on its result

vars == <<now, rate, rerun, n, concurrency, method, repoDir, useGraphql, forceRefresh, windowEnd,
          index, workers, results, main, out, disk, stage, collects, written, sourced,
          ungated, unobserved, before, scan, fetch, limiter, boot, rest, prs, runs, rel, validation, promote>>

config == <<n, concurrency, method, repoDir, useGraphql>>
\* the parts of the program that are modelled on their own
aside == <<scan, fetch, limiter, boot, rest, prs, runs, rel, validation, promote>>
ghosts == <<ungated, unobserved>>

Repos == 0 .. (n - 1)
Pool == DOMAIN workers

NewRateLimiter(t) ==
  [remaining |-> InitialRemaining, resetAt |-> t + InitialResetDelay,
   threshold |-> DefaultThreshold]

EmptyDir == [f \in Files |-> Absent]

\* ensureRepoDir for the configs of a batch: repositories can be given one
\* directory. A directory goes by the first index that has it.
RepoDirs(len) ==
  {dirs \in [0 .. (len - 1) -> 0 .. (len - 1)] :
     \A i \in 0 .. (len - 1) : dirs[i] <= i /\ dirs[dirs[i]] = dirs[i]}

\* run() builds the runtime at time t and collectReposParallel starts its
\* workers: the state of the batch when the first worker is suspended
Started(len, c, refresh, t) ==
  LET started == StartWorkers(1, WorkerCount(c, len), 0, len)
  IN [rate |-> NewRateLimiter(t), forceRefresh |-> refresh, windowEnd |-> t,
      index |-> started.index, workers |-> started.pool,
      results |-> [i \in 0 .. (len - 1) |-> Absent],
      stage |-> [i \in 0 .. (len - 1) |-> "Pending"],
      collects |-> [i \in 0 .. (len - 1) |-> Calls(started.pool, i)]]

RunInit ==
  /\ now = 0
  /\ rerun = FALSE
  /\ n \in 0 .. MaxRepos
  /\ concurrency \in 1 .. MaxConcurrency
  /\ \E shift \in 0 .. 2 : method = [i \in 0 .. (n - 1) |-> MethodCycle[((i + shift) % 3) + 1]]
  /\ repoDir \in RepoDirs(n)
  /\ useGraphql \in BOOLEAN
  /\ \E refresh \in BOOLEAN :
       LET b == Started(n, concurrency, refresh, 0)
       IN /\ forceRefresh = b.forceRefresh
          /\ rate = b.rate
          /\ windowEnd = b.windowEnd
          /\ index = b.index
          /\ workers = b.workers
          /\ results = b.results
          /\ stage = b.stage
          /\ collects = b.collects
  /\ main = "running"
  /\ out = <<>>
  /\ disk = [i \in 0 .. (n - 1) |-> EmptyDir]
  /\ written = [i \in 0 .. (n - 1) |-> {}]
  /\ sourced = [i \in 0 .. (n - 1) |-> {}]
  /\ ungated = {}
  /\ unobserved = {}
  /\ before = [disk |-> disk, forceRefresh |-> forceRefresh]

\* the batch with nothing else in the picture
NoBatch == RunInit /\ n = 0 /\ concurrency = 1 /\ useGraphql /\ ~forceRefresh

\* no source is called on its own
NoTools == rel = NoReleases /\ validation = NoValidation /\ promote = NoPromote
NoSource == rest = NoRest /\ prs = NoPulls /\ runs = NoRuns /\ NoTools

Init ==
  /\ RunInit
  /\ scan = NoScan /\ fetch = NoFetch /\ limiter = NoLimiter /\ boot = NoBoot /\ NoSource

\* ------------------------------------------------------------- the worker
W(w) == workers[w]
Set(w, rec) == workers' = [workers EXCEPT ![w] = rec]

\* writeJson of one artifact of repository i
\* the write is held back: nothing reaches the disk at this point
WriteJsonDeferred(i, file, content) == UNCHANGED <<disk, written>>

WriteJson(i, file, content) ==
  /\ disk' = [disk EXCEPT ![repoDir[i]][file] = content]
  /\ written' = [written EXCEPT ![i] = @ \cup {file}]

\* the worker is back at its loop head: the next index, and collectRepo on it
Loop(w) ==
  /\ index' = NextIndex(index)
  /\ Set(w, LoopHead(index, n))
  /\ collects' = [i \in Repos |-> IF i = index THEN collects[i] + 1 ELSE collects[i]]

\* octokit.hook.before("request"): checkAndWait, then the request is sent
Gate(w) ==
  /\ W(w).pc = "gate"
  /\ IF CheckPasses(rate, now)
       THEN Set(w, [W(w) EXCEPT !.pc = "call"])
       ELSE Set(w, [W(w) EXCEPT !.pc = "sleep", !.wake = WakeTime(rate, now)])
  /\ UNCHANGED <<now, rate, rerun, config, aside, forceRefresh, windowEnd, index, results, main,
                 out, disk, stage, collects, written, sourced, ghosts, before>>

\* the timer of checkAndWait fires: checkAndWait returns, the request is sent
Wake(w) ==
  /\ W(w).pc = "sleep"
  /\ now >= W(w).wake
  /\ Set(w, [W(w) EXCEPT !.pc = "call", !.wake = 0])
  /\ UNCHANGED <<now, rate, rerun, config, aside, forceRefresh, windowEnd, index, results, main,
                 out, disk, stage, collects, written, sourced, ghosts, before>>

\* the rejection is never handled: the worker stays where it is
CaughtHangs(w) ==
  /\ stage' = [stage EXCEPT ![W(w).cur] = "Failed"]
  /\ Set(w, [W(w) EXCEPT !.pc = "hung"])
  /\ UNCHANGED <<results, index, collects>>

\* the catch of the worker: the zero-valued result, then the loop goes on
Caught(w) ==
  /\ results' = [results EXCEPT ![ResultSlot(W(w).cur)] = FailureResult(W(w).cur)]
  /\ stage' = [stage EXCEPT ![W(w).cur] = "Failed"]
  /\ Loop(w)

\* The metadata request returns: fetchWithConditional ends, and on success
\* metadata.json is written.
MetadataResponds(w) ==
  /\ W(w).pc = "call"
  /\ W(w).req = "metadata"
  /\ LET i == W(w).cur
         cached == CachedMetadata(MaybeReadCache(disk[repoDir[i]].metadata, forceRefresh))
     IN \E response \in MetadataResponses(i, cached, now) :
          LET result == FetchWithConditional(cached, response)
          IN IF result.ok
               THEN /\ rate' = Observe(rate, result.observed)
                    /\ WriteJson(i, "metadata",
                                 [kind |-> "metadata", fetchedAt |-> now,
                                  metadata |-> result.data, etag |-> result.etag,
                                  lastModified |-> result.lastModified])
                    /\ stage' = [stage EXCEPT ![i] = "MetadataFetched"]
                    /\ Set(w, [W(w) EXCEPT !.pc = "events", !.metadata = result.data])
                    /\ UNCHANGED <<results, index, collects>>
               ELSE /\ Caught(w)
                    /\ UNCHANGED <<rate, disk, written>>
  /\ UNCHANGED <<now, rerun, config, aside, forceRefresh, windowEnd, main, out,
                 sourced, ghosts, before>>

\* the event source of a repository is a REST source
RestSource(i) == method[i] \in {"actions", "releases"} \/ ~useGraphql

\* collectRepo goes on to the pull requests without collecting the events
EventsSkipped(w) ==
  /\ W(w).pc = "events"
  /\ Set(w, [W(w) EXCEPT !.pc = "pulls"])
  /\ UNCHANGED <<now, rate, rerun, config, aside, forceRefresh, windowEnd, index, results, main,
                 out, disk, stage, collects, written, sourced, ghosts, before>>

\* collectRepo after metadata.json: the cached workflow-runs.json is used, or
\* collectDeploymentEvents dispatches to the source of the repository's method
EventsStart(w) ==
  /\ W(w).pc = "events"
  /\ LET i == W(w).cur
         payload == MaybeReadCache(disk[repoDir[i]].events, forceRefresh)
     IN IF payload # Absent
          THEN /\ stage' = [stage EXCEPT ![i] = "EventsCollected"]
               /\ Set(w, [W(w) EXCEPT !.pc = "pulls", !.events = payload.runs])
               /\ UNCHANGED <<sourced, ungated>>
          ELSE /\ sourced' = [sourced EXCEPT ![i] = @ \cup {"events"}]
               /\ IF RestSource(i)
                    THEN /\ Set(w, [W(w) EXCEPT !.pc = "gate", !.req = "events",
                                                !.api = "rest"])
                         /\ UNCHANGED ungated
                    ELSE /\ Set(w, [W(w) EXCEPT !.pc = "call", !.req = "events",
                                                !.api = "graphql"])
                         /\ ungated' = ungated \cup {"graphql"}
               /\ UNCHANGED stage
  /\ UNCHANGED <<now, rate, rerun, config, aside, forceRefresh, windowEnd, index, results, main,
                 out, disk, collects, written, unobserved, before>>

\* A page of a source arrives. A REST response passes the after-hook of
\* octokit; the graphql client has no hook.
PageArrives(w, headers) ==
  IF W(w).api = "rest"
    THEN /\ rate' = UpdateFromHeaders(rate, headers)
         /\ UNCHANGED unobserved
    ELSE /\ unobserved' = unobserved \cup {W(w).api}
         /\ UNCHANGED rate

\* the request of the next page of the source a worker is reading
NextPage(w) ==
  IF W(w).api = "rest"
    THEN /\ Set(w, [W(w) EXCEPT !.pc = "gate"])
         /\ UNCHANGED ungated
    ELSE /\ UNCHANGED workers
         /\ ungated' = ungated \cup {W(w).api}

\* a page of the event source returns, or the request fails
EventsResponds(w) ==
  /\ W(w).pc = "call"
  /\ W(w).req = "events"
  /\ LET i == W(w).cur
     IN \/ /\ Caught(w)
           /\ UNCHANGED <<rate, disk, written, ghosts>>
        \/ /\ \E h \in RateHeaders(now) : PageArrives(w, h)
           /\ NextPage(w)
           /\ UNCHANGED <<results, stage, disk, written, index, collects>>
        \/ /\ \E h \in RateHeaders(now) : PageArrives(w, h)
           /\ WriteJson(i, "events",
                        [kind |-> "events", fetchedAt |-> now, windowEnd |-> windowEnd,
                         runs |-> UpstreamEvents(i)])
           /\ stage' = [stage EXCEPT ![i] = "EventsCollected"]
           /\ Set(w, [W(w) EXCEPT !.pc = "pulls", !.events = UpstreamEvents(i)])
           /\ UNCHANGED <<results, ungated, index, collects>>
  /\ UNCHANGED <<now, rerun, config, aside, forceRefresh, windowEnd, main, out,
                 sourced, before>>

\* collectRepo after the events: the cached pull-requests.json is used, or
\* collectPullRequests sends its first query
PullsStart(w) ==
  /\ W(w).pc = "pulls"
  /\ LET i == W(w).cur
         payload == MaybeReadCache(disk[repoDir[i]].pulls, forceRefresh)
     IN IF payload # Absent
          THEN /\ stage' = [stage EXCEPT ![i] = "PullRequestsCollected"]
               /\ Set(w, [W(w) EXCEPT !.pc = "return", !.pulls = payload.pullRequests])
               /\ UNCHANGED <<sourced, ungated>>
          ELSE /\ sourced' = [sourced EXCEPT ![i] = @ \cup {"pulls"}]
               /\ Set(w, [W(w) EXCEPT !.pc = "call", !.req = "pulls", !.api = "graphql"])
               /\ ungated' = ungated \cup {"graphql"}
               /\ UNCHANGED stage
  /\ UNCHANGED <<now, rate, rerun, config, aside, forceRefresh, windowEnd, index, results, main,
                 out, disk, collects, written, unobserved, before>>

\* a page of pull requests returns, or the query fails
PullsResponds(w) ==
  /\ W(w).pc = "call"
  /\ W(w).req = "pulls"
  /\ LET i == W(w).cur
     IN \/ /\ Caught(w)
           /\ UNCHANGED <<rate, disk, written, ghosts>>
        \/ /\ \E h \in RateHeaders(now) : PageArrives(w, h)
           /\ NextPage(w)
           /\ UNCHANGED <<results, stage, disk, written, index, collects>>
        \/ /\ \E h \in RateHeaders(now) : PageArrives(w, h)
           /\ WriteJson(i, "pulls",
                        [kind |-> "pulls", fetchedAt |-> now, windowEnd |-> windowEnd,
                         pullRequests |-> UpstreamPulls(i)])
           /\ stage' = [stage EXCEPT ![i] = "PullRequestsCollected"]
           /\ Set(w, [W(w) EXCEPT !.pc = "return", !.pulls = UpstreamPulls(i)])
           /\ UNCHANGED <<results, ungated, index, collects>>
  /\ UNCHANGED <<now, rerun, config, aside, forceRefresh, windowEnd, main, out,
                 sourced, before>>

\* collectRepo returns its summary, the worker stores it and loops
Returns(w) ==
  /\ W(w).pc = "return"
  /\ LET i == W(w).cur
     IN /\ results' = [results EXCEPT ![ResultSlot(i)] =
                         Summary(W(w).metadata.fullName, W(w).pulls,
                                 W(w).events, forceRefresh)]
        /\ stage' = [stage EXCEPT ![i] = "Done"]
  /\ Loop(w)
  /\ UNCHANGED <<now, rate, rerun, config, aside, forceRefresh, windowEnd, main, out, disk,
                 written, sourced, ghosts, before>>

\* Promise.all resolves: collectReposParallel returns results.filter(Boolean)
BatchReturns ==
  /\ main = "running"
  /\ \A w \in Pool : W(w).pc = "exited"
  /\ main' = "returned"
  /\ out' = FilterBoolean(results, 0, n)
  /\ UNCHANGED <<now, rate, rerun, config, aside, forceRefresh, windowEnd, index, workers, results,
                 disk, stage, collects, written, sourced, ghosts, before>>

\* a later process run over the same repositories and output directory, started
\* after the first has ended
Rerun ==
  /\ main = "returned"
  /\ ~rerun
  /\ rerun' = TRUE
  /\ now' = now + 1
  /\ \E refresh \in BOOLEAN :
       LET b == Started(n, concurrency, refresh, now')
       IN /\ forceRefresh' = b.forceRefresh
          /\ rate' = b.rate
          /\ windowEnd' = b.windowEnd
          /\ index' = b.index
          /\ workers' = b.workers
          /\ results' = b.results
          /\ stage' = b.stage
          /\ collects' = b.collects
  /\ main' = "running"
  /\ out' = <<>>
  /\ written' = [i \in Repos |-> {}]
  /\ sourced' = [i \in Repos |-> {}]
  /\ before' = [disk |-> disk, forceRefresh |-> forceRefresh]
  /\ ungated' = {}
  /\ unobserved' = {}
  /\ UNCHANGED <<config, aside, disk>>

\* The clock is read by checkAndWait and for the fetchedAt stamps: a second
\* passes while a worker sleeps in checkAndWait.
Tick ==
  /\ now < MaxClock
  /\ \E w \in Pool : W(w).pc = "sleep"
  /\ now' = now + 1
  /\ UNCHANGED <<rate, rerun, config, aside, forceRefresh, windowEnd, index, workers, results, main,
                 out, disk, stage, collects, written, sourced, ghosts, before>>

Next ==
  \/ \E w \in Pool : Gate(w)
  \/ \E w \in Pool : Wake(w)
  \/ \E w \in Pool : MetadataResponds(w)
  \/ \E w \in Pool : EventsStart(w)
  \/ \E w \in Pool : EventsResponds(w)
  \/ \E w \in Pool : PullsStart(w)
  \/ \E w \in Pool : PullsResponds(w)
  \/ \E w \in Pool : Returns(w)
  \/ BatchReturns
  \/ Tick

Spec == Init /\ [][Next]_vars

\* what worker w can do next
WorkerStep(w) ==
  /\ w \in Pool
  /\ \/ Gate(w) \/ Wake(w) \/ MetadataResponds(w) \/ EventsStart(w) \/ EventsResponds(w)
     \/ PullsStart(w) \/ PullsResponds(w) \/ Returns(w)

\* an answer that ends the listing worker w is reading: its last page, or a
\* failure
ListingEnds(w) ==
  /\ w \in Pool
  /\ EventsResponds(w) \/ PullsResponds(w)
  /\ workers'[w].req # workers[w].req \/ workers'[w].pc \notin {"gate", "call"}

\* The batch under the scheduling of the event loop and an upstream that
\* answers: time passes, a pending continuation runs, a call is answered, and
\* a listing that is read page after page comes to its last page or fails.
SpecLive ==
  /\ Spec
  /\ WF_vars(Tick)
  /\ WF_vars(BatchReturns)
  /\ \A w \in 1 .. MaxConcurrency : WF_vars(WorkerStep(w)) /\ SF_vars(ListingEnds(w))

\* a process run and a second one over the same repositories
InitRerun == Init /\ n \in 1 .. MaxRerunRepos

NextRerun == Next \/ Rerun

SpecRerun == InitRerun /\ [][NextRerun]_vars

\* a call of collectDeploymentGraphQLEvents, alone, with its first query sent
InitGraphQL ==
  /\ NoBatch
  /\ NoSource
  /\ fetch = NoFetch /\ limiter = NoLimiter /\ boot = NoBoot
  /\ \E ws \in 0 .. MaxTime, we \in 0 .. MaxTime,
        environments \in {<<>>, <<"production">>}, statuses \in {<<>>, <<"success">>} :
       /\ ws <= we
       /\ scan = ScanStarted(IsoString(ws), IsoString(we), environments, statuses)

batch == <<now, rate, rerun, config, forceRefresh, windowEnd, index, workers, results, main,
           out, disk, stage, collects, written, sourced, ghosts, before>>

\* the scan after the for loop over a page, at the hasNextPage test
ScanAfter(page) ==
  LET loop == ScanNodes(page.nodes, 1, scan.args, scan.deployments, 0)
  IN [scan EXCEPT
        !.deployments = loop.deployments,
        !.inspected = @ + loop.inspected,
        !.pc = IF loop.returned \/ ~page.hasNextPage THEN "returned" ELSE "query",
        !.stopped = IF loop.returned THEN "old node"
                    ELSE IF ~page.hasNextPage THEN "last page" ELSE "no",
        !.cursor = IF loop.returned \/ ~page.hasNextPage THEN @ ELSE @ + 1,
        !.page = [size |-> Len(page.nodes), hasNextPage |-> page.hasNextPage,
                  old |-> FirstOld(page.nodes, scan.args.windowStart.t)]]

\* the response of a query arrives and its nodes are scanned
PageScanned ==
  /\ scan.pc = "query"
  /\ \E page \in Pages :
       /\ page.hasNextPage => scan.cursor + 1 < MaxPages
       /\ scan' = ScanAfter(page)
  /\ UNCHANGED <<batch, fetch, limiter, boot, rest, prs, runs, rel, validation, promote>>

\* the query is rejected: the scan throws
QueryRejected ==
  /\ scan.pc = "query"
  /\ scan' = [scan EXCEPT !.pc = "thrown"]
  /\ UNCHANGED <<batch, fetch, limiter, boot, rest, prs, runs, rel, validation, promote>>

NextGraphQL == PageScanned \/ QueryRejected

SpecGraphQL == InitGraphQL /\ [][NextGraphQL]_vars

\* Both deployment sources called for one repository, with the same window
\* and allow-lists: collectDeploymentApiEvents reads the listing in pages
\* through the paginate iterator, collectDeploymentGraphQLEvents by cursor.
InitDeployments ==
  /\ NoBatch
  /\ fetch = NoFetch /\ limiter = NoLimiter /\ boot = NoBoot
  /\ prs = NoPulls /\ runs = NoRuns /\ NoTools
  /\ \E ws \in 0 .. MaxTime, we \in 0 .. MaxTime,
        environments \in {<<>>, <<"production">>}, statuses \in {<<>>, <<"success">>},
        listing \in Listings, size \in 1 .. MaxPageNodes :
       /\ ws <= we
       /\ scan = ScanStarted(IsoString(ws), IsoString(we), environments, statuses)
       /\ rest = [pc |-> "page", args |-> scan.args, listing |-> listing, size |-> size,
                  deployments |-> <<>>, pages |-> 1, inspected |-> 0,
                  page |-> [size |-> 0, hasNextPage |-> FALSE, old |-> 0]]

\* a page of the REST listing arrives: the for loop over its records, with
\* the status request of each record that gets that far, then the test on
\* the oldest record of the page
RestPageScanned ==
  /\ rest.pc = "page"
  /\ LET listed == PageOf(rest.listing, rest.size, rest.pages)
         data == [k \in 1 .. Len(listed) |-> RestRecord(listed[k])]
         more == HasNextPage(rest.listing, rest.size, rest.pages)
         loop == RestScanNodes(data, 1, rest.args, rest.deployments, 0)
         ends == OldestEndsIteration(data, rest.args) \/ ~more
     IN rest' = [rest EXCEPT
                   !.deployments = loop.deployments,
                   !.inspected = @ + loop.inspected,
                   !.pc = IF ends THEN "returned" ELSE "page",
                   !.pages = IF ends THEN @ ELSE @ + 1,
                   !.page = [size |-> Len(listed), hasNextPage |-> more,
                             old |-> FirstOld(listed, rest.args.windowStart.t)]]
  /\ UNCHANGED <<batch, scan, fetch, limiter, boot, prs, runs, rel, validation, promote>>

\* a request of the REST source is rejected: the function throws
RestRequestRejected ==
  /\ rest.pc = "page"
  /\ rest' = [rest EXCEPT !.pc = "thrown"]
  /\ UNCHANGED <<batch, scan, fetch, limiter, boot, prs, runs, rel, validation, promote>>

\* a page of the same listing arrives at the GraphQL source
ListedPageScanned ==
  /\ rest.pc # "none"
  /\ scan.pc = "query"
  /\ scan' = ScanAfter([nodes |-> PageOf(rest.listing, rest.size, scan.cursor + 1),
                        hasNextPage |-> HasNextPage(rest.listing, rest.size, scan.cursor + 1)])
  /\ UNCHANGED <<batch, rest, fetch, limiter, boot, prs, runs, rel, validation, promote>>

NextDeployments == RestPageScanned \/ RestRequestRejected \/ ListedPageScanned

SpecDeployments == InitDeployments /\ [][NextDeployments]_vars

\* a call of collectPullRequests, alone, with its first query sent; the
\* window and the bot options are those run() put in the runtime
InitPulls ==
  /\ NoBatch
  /\ scan = NoScan /\ fetch = NoFetch /\ limiter = NoLimiter /\ boot = NoBoot
  /\ rest = NoRest /\ runs = NoRuns /\ NoTools
  /\ \E ws \in 0 .. MaxTime, we \in 0 .. MaxTime, includeBotPRs \in BOOLEAN,
        patterns \in PatternOptions, connection \in Connections,
        size \in 1 .. MaxPageNodes :
       /\ ws <= we
       /\ prs = [pc |-> "query",
                 options |-> [windowStart |-> IsoString(ws), windowEnd |-> IsoString(we),
                              includeBotPRs |-> includeBotPRs,
                              botAuthorPatterns |-> NormalizeBotPatterns(patterns)],
                 connection |-> connection, size |-> size, cursor |-> 0,
                 results |-> <<>>, excludedBots |-> <<>>, looped |-> {}]

\* the response of a query arrives: the page is found stale and the loop is
\* left, or its nodes are gone through and the next page is asked for
PullsPageScanned ==
  /\ prs.pc = "query"
  /\ LET nodes == PageOf(prs.connection, prs.size, prs.cursor + 1)
         hasNextPage == HasNextPage(prs.connection, prs.size, prs.cursor + 1)
         stale == AllMergedBeforeWindow(nodes, prs.options.windowStart) /\ Len(nodes) > 0
         loop == PullsLoop(nodes, 1, prs.options, prs.results, prs.excludedBots)
     IN prs' = IF stale THEN [prs EXCEPT !.pc = "returned"]
               ELSE [prs EXCEPT
                       !.results = loop.results,
                       !.excludedBots = loop.excludedBots,
                       !.looped = @ \cup {nodes[k].number : k \in 1 .. Len(nodes)},
                       !.pc = IF hasNextPage THEN "query" ELSE "returned",
                       !.cursor = IF hasNextPage THEN @ + 1 ELSE @]
  /\ UNCHANGED <<batch, scan, fetch, limiter, boot, rest, runs, rel, validation, promote>>

\* the query is rejected: collectPullRequests throws
PullsQueryRejected ==
  /\ prs.pc = "query"
  /\ prs' = [prs EXCEPT !.pc = "thrown"]
  /\ UNCHANGED <<batch, scan, fetch, limiter, boot, rest, runs, rel, validation, promote>>

NextPulls == PullsPageScanned \/ PullsQueryRejected

SpecPulls == InitPulls /\ [][NextPulls]_vars

\* a call of collectActionsEvents, alone, with the listing of the runs
\* asked for
InitActions ==
  /\ NoBatch
  /\ scan = NoScan /\ fetch = NoFetch /\ limiter = NoLimiter /\ boot = NoBoot
  /\ rest = NoRest /\ prs = NoPulls /\ NoTools
  /\ \E ws \in 0 .. MaxTime, we \in 0 .. MaxTime, options \in ActionsOptions,
        listing \in RunListings :
       /\ ws <= we
       /\ runs = [pc |-> "paginate", windowStart |-> IsoString(ws),
                  windowEnd |-> IsoString(we), options |-> options,
                  listing |-> listing, selected |-> <<>>]

\* octokit.paginate resolves with every run of the listing: the loop goes
\* through them and the selected events are returned
RunsListed ==
  /\ runs.pc = "paginate"
  /\ runs' = [runs EXCEPT
                !.selected = SelectRuns(runs.listing, 1, runs.windowStart, runs.windowEnd,
                                        runs.options, <<>>),
                !.pc = "returned"]
  /\ UNCHANGED <<batch, scan, fetch, limiter, boot, rest, prs, rel, validation, promote>>

\* a request of the listing is rejected: collectActionsEvents throws
RunsRequestRejected ==
  /\ runs.pc = "paginate"
  /\ runs' = [runs EXCEPT !.pc = "thrown"]
  /\ UNCHANGED <<batch, scan, fetch, limiter, boot, rest, prs, rel, validation, promote>>

NextActions == RunsListed \/ RunsRequestRejected

SpecActions == InitActions /\ [][NextActions]_vars

\* a call of collectReleaseEvents, alone, with the listing of the releases
\* asked for
InitReleases ==
  /\ NoBatch
  /\ scan = NoScan /\ fetch = NoFetch /\ limiter = NoLimiter /\ boot = NoBoot
  /\ rest = NoRest /\ prs = NoPulls /\ runs = NoRuns
  /\ validation = NoValidation /\ promote = NoPromote
  /\ \E ws \in 0 .. MaxTime, we \in 0 .. MaxTime, options \in ReleasesOptions,
        listing \in ReleaseListings :
       /\ ws <= we
       /\ rel = [pc |-> "paginate", windowStart |-> IsoString(ws),
                 windowEnd |-> IsoString(we), options |-> options,
                 listing |-> listing, events |-> <<>>, inspected |-> 0]

\* octokit.paginate resolves with every release of the listing: the loop
\* goes through them and the events are returned
ReleasesListed ==
  /\ rel.pc = "paginate"
  /\ LET loop == ReleasesLoop(rel.listing, 1, rel.windowStart, rel.windowEnd, rel.options,
                              <<>>, 0)
     IN rel' = [rel EXCEPT !.events = IF loop.raised THEN <<>> ELSE loop.events,
                           !.inspected = loop.inspected,
                           !.pc = IF loop.raised THEN "raised" ELSE "returned"]
  /\ UNCHANGED <<batch, scan, fetch, limiter, boot, rest, prs, runs, validation, promote>>

\* a request of the listing is rejected: collectReleaseEvents throws
ReleasesRequestRejected ==
  /\ rel.pc = "paginate"
  /\ rel' = [rel EXCEPT !.pc = "thrown"]
  /\ UNCHANGED <<batch, scan, fetch, limiter, boot, rest, prs, runs, validation, promote>>

NextReleases == ReleasesListed \/ ReleasesRequestRejected

SpecReleases == InitReleases /\ [][NextReleases]_vars

\* a sample file and a validation file, each there or not, before any call
\* of writeValidationFile
InitValidation ==
  /\ NoBatch
  /\ scan = NoScan /\ fetch = NoFetch /\ limiter = NoLimiter /\ boot = NoBoot
  /\ rest = NoRest /\ prs = NoPulls /\ runs = NoRuns
  /\ rel = NoReleases /\ promote = NoPromote
  /\ \E sample \in {NoFile, JsonFile(<<[slug |-> <<"A">>, method |-> "releases"]>>)},
        file \in {NoFile, JsonFile(<<[slug |-> <<"B">>, method |-> "actions"]>>)} :
       validation = [pc |-> "idle", sample |-> sample, file |-> file, calls |-> 0,
                     results |-> <<>>, append |-> FALSE, before |-> file,
                     written |-> 0, skipped |-> 0]

\* writeValidationFile is called with the results of a discovery
ValidationWritten ==
  /\ validation.pc # "none"
  /\ validation.calls < MaxCalls
  /\ \E items \in RecommendationResults, append \in BOOLEAN :
       LET call == WriteValidationFile(items, append, validation.sample, validation.file)
       IN validation' = [validation EXCEPT
                           !.pc = "written", !.calls = @ + 1,
                           !.results = items, !.append = append,
                           !.before = validation.file, !.file = call.file,
                           !.written = call.written, !.skipped = call.skipped]
  /\ UNCHANGED <<batch, scan, fetch, limiter, boot, rest, prs, runs, rel, promote>>

\* writeValidationFile is called once more with the results and the mode of
\* the call before
ValidationRepeated ==
  /\ validation.pc = "written"
  /\ LET call == WriteValidationFile(validation.results, validation.append,
                                     validation.sample, validation.file)
     IN validation' = [validation EXCEPT
                         !.pc = "repeated",
                         !.before = validation.file, !.file = call.file,
                         !.written = call.written, !.skipped = call.skipped]
  /\ UNCHANGED <<batch, scan, fetch, limiter, boot, rest, prs, runs, rel, promote>>

NextValidation == ValidationWritten \/ ValidationRepeated

SpecValidation == InitValidation /\ [][NextValidation]_vars

\* a call of mergeConfigs, alone, about to run
InitPromote ==
  /\ NoBatch
  /\ scan = NoScan /\ fetch = NoFetch /\ limiter = NoLimiter /\ boot = NoBoot
  /\ rest = NoRest /\ prs = NoPulls /\ runs = NoRuns
  /\ rel = NoReleases /\ validation = NoValidation
  /\ \E base \in BaseConfigs, incoming \in IncomingConfigs :
       promote = [pc |-> "merge", base |-> base, incoming |-> incoming,
                  merged |-> <<>>, added |-> <<>>, skipped |-> <<>>, first |-> <<>>]

\* mergeConfigs runs: it returns or throws at a slug without a slash
ConfigsMerged ==
  /\ promote.pc = "merge"
  /\ LET result == MergeConfigs(promote.base, promote.incoming)
     IN promote' = [promote EXCEPT
                      !.pc = IF result.ok THEN "merged" ELSE "thrown",
                      !.merged = result.merged, !.added = result.added,
                      !.skipped = result.skipped]
  /\ UNCHANGED <<batch, scan, fetch, limiter, boot, rest, prs, runs, rel, validation>>

\* the same incoming list is merged into the result
MergedAgain ==
  /\ promote.pc = "merged"
  /\ LET result == MergeConfigs(promote.merged, promote.incoming)
     IN promote' = [promote EXCEPT
                      !.pc = IF result.ok THEN "again" ELSE "thrown",
                      !.first = promote.merged,
                      !.merged = result.merged, !.added = result.added,
                      !.skipped = result.skipped]
  /\ UNCHANGED <<batch, scan, fetch, limiter, boot, rest, prs, runs, rel, validation>>

NextPromote == ConfigsMerged \/ MergedAgain

SpecPromote == InitPromote /\ [][NextPromote]_vars

\* a call of fetchWithConditional, alone, with its request sent
InitFetch ==
  /\ NoBatch
  /\ NoSource
  /\ scan = NoScan /\ limiter = NoLimiter /\ boot = NoBoot
  /\ \E cached \in CachedValues :
       fetch = [pc |-> "request", cached |-> cached, sent |-> ConditionalHeaders(cached),
                answer |-> Absent, outcome |-> Absent]

\* fetchWithConditional ends on an answer to its request
Ends(response) ==
  LET result == FetchWithConditional(fetch.cached, response)
  IN fetch' = [fetch EXCEPT !.pc = IF result.ok THEN "returned" ELSE "thrown",
                            !.answer = response, !.outcome = result]

\* await request(headers) resolves
RequestResolves ==
  /\ fetch.pc = "request"
  /\ \E response \in {a \in FetchAnswers : a.status = 200} : Ends(response)
  /\ UNCHANGED <<batch, scan, limiter, boot, rest, prs, runs, rel, validation, promote>>

\* await request(headers) is rejected
RequestRejected ==
  /\ fetch.pc = "request"
  /\ \E response \in {a \in FetchAnswers : a.status # 200} : Ends(response)
  /\ UNCHANGED <<batch, scan, limiter, boot, rest, prs, runs, rel, validation, promote>>

NextFetch == RequestResolves \/ RequestRejected

SpecFetch == InitFetch /\ [][NextFetch]_vars

\* A RateLimiter some time into a process run, with one caller of
\* checkAndWait. `at` is the state checkAndWait read when it was last
\* called, `last` the headers given to updateFromHeaders last.
InitRate ==
  /\ NoBatch
  /\ NoSource
  /\ scan = NoScan /\ fetch = NoFetch /\ boot = NoBoot
  /\ \E remaining \in {LowRemaining, LowRemaining + 1},
        resetAt \in 0 .. (MaxClock - WaitBuffer) :
       limiter = [pc |-> "idle",
                  rate |-> [remaining |-> remaining, resetAt |-> resetAt,
                            threshold |-> DefaultThreshold],
                  now |-> 0, wake |-> 0, waited |-> FALSE,
                  at |-> Absent, last |-> Absent]

\* a response arrives while the caller is anywhere: updateFromHeaders
HeadersArrive ==
  /\ limiter.pc # "none"
  /\ \E headers \in AnyHeaders :
       limiter' = [limiter EXCEPT !.rate = UpdateFromHeaders(@, headers),
                                  !.last = headers]
  /\ UNCHANGED <<batch, scan, fetch, boot, rest, prs, runs, rel, validation, promote>>

\* the caller calls checkAndWait: it returns, or sets its timer (calls
\* whose timer would be due after the last second of the clock are left out)
CheckAndWait ==
  /\ limiter.pc = "idle"
  /\ CheckPasses(limiter.rate, limiter.now) \/ WakeTime(limiter.rate, limiter.now) <= MaxClock
  /\ limiter' =
       [limiter EXCEPT
          !.at = [remaining |-> limiter.rate.remaining, resetAt |-> limiter.rate.resetAt,
                  threshold |-> limiter.rate.threshold, now |-> limiter.now],
          !.pc = IF CheckPasses(limiter.rate, limiter.now) THEN "returned" ELSE "sleep",
          !.waited = ~CheckPasses(limiter.rate, limiter.now),
          !.wake = IF CheckPasses(limiter.rate, limiter.now) THEN 0
                   ELSE WakeTime(limiter.rate, limiter.now)]
  /\ UNCHANGED <<batch, scan, fetch, boot, rest, prs, runs, rel, validation, promote>>

\* the timer of checkAndWait fires and checkAndWait returns
TimerFires ==
  /\ limiter.pc = "sleep"
  /\ limiter.now >= limiter.wake
  /\ limiter' = [limiter EXCEPT !.pc = "returned", !.wake = 0]
  /\ UNCHANGED <<batch, scan, fetch, boot, rest, prs, runs, rel, validation, promote>>

\* the caller sends its request and comes back for the next one
CallerGoesOn ==
  /\ limiter.pc = "returned"
  /\ limiter' = [limiter EXCEPT !.pc = "idle"]
  /\ UNCHANGED <<batch, scan, fetch, boot, rest, prs, runs, rel, validation, promote>>

\* a second passes
SecondPasses ==
  /\ limiter.pc # "none"
  /\ limiter.now < MaxClock
  /\ limiter' = [limiter EXCEPT !.now = @ + 1]
  /\ UNCHANGED <<batch, scan, fetch, boot, rest, prs, runs, rel, validation, promote>>

NextRate == HeadersArrive \/ CheckAndWait \/ TimerFires \/ CallerGoesOn \/ SecondPasses

SpecRate == InitRate /\ [][NextRate]_vars

\* time passes and a timer that is due fires
SpecRateLive == SpecRate /\ WF_vars(SecondPasses) /\ WF_vars(TimerFires)

\* run() at its start, with GITHUB_TOKEN set or not and the repository
\* entries of --repo and --input
InitStartup ==
  /\ NoBatch
  /\ NoSource
  /\ scan = NoScan /\ fetch = NoFetch /\ limiter = NoLimiter
  /\ \E token \in BOOLEAN, len \in 0 .. MaxEntries, days \in DaysOptions,
        clock \in MaxDays .. MaxClock :
       \E entries \in [1 .. len -> Slugs] :
         boot = [pc |-> "token", token |-> token, entries |-> entries,
                 days |-> days, clock |-> clock,
                 windowStart |-> NoTimestamp, windowEnd |-> NoTimestamp,
                 repoConfigs |-> <<>>, dirs |-> <<>>, started |-> FALSE]

\* if (!token) throw
TokenChecked ==
  /\ boot.pc = "token"
  /\ boot' = [boot EXCEPT !.pc = IF boot.token THEN "entries" ELSE "failed"]
  /\ UNCHANGED <<batch, scan, fetch, limiter, rest, prs, runs, rel, validation, promote>>

\* readRepoArguments
RepoArgumentsRead ==
  /\ boot.pc = "entries"
  /\ boot' = [boot EXCEPT !.pc = IF Len(boot.entries) = 0 THEN "failed" ELSE "merge"]
  /\ UNCHANGED <<batch, scan, fetch, limiter, rest, prs, runs, rel, validation, promote>>

\* mergeRepoEntries
EntriesMerged ==
  /\ boot.pc = "merge"
  /\ LET merged == MergeRepoEntries(boot.entries, 1, <<>>)
     IN boot' = [boot EXCEPT !.pc = IF merged.ok THEN "window" ELSE "failed",
                             !.repoConfigs = merged.configs]
  /\ UNCHANGED <<batch, scan, fetch, limiter, rest, prs, runs, rel, validation, promote>>

\* nowIso and windowStartIso are computed and put in the runtime;
\* toISOString throws a RangeError for the Invalid Date that days NaN gives
WindowBuilt ==
  /\ boot.pc = "window"
  /\ boot' = IF boot.days.nan THEN [boot EXCEPT !.pc = "failed"]
             ELSE [boot EXCEPT !.pc = "collect",
                               !.windowEnd = IsoString(boot.clock),
                               !.windowStart = WindowStartIso(boot.clock, boot.days)]
  /\ UNCHANGED <<batch, scan, fetch, limiter, rest, prs, runs, rel, validation, promote>>

\* collectReposParallel is called: the workers start, and each repository is
\* collected into the directory ensureRepoDir gives it
CollectionStarts ==
  /\ boot.pc = "collect"
  /\ boot' = [boot EXCEPT
                !.pc = "collecting",
                !.started = TRUE,
                !.dirs = [k \in 1 .. Len(boot.repoConfigs) |->
                            EnsureRepoDir(boot.repoConfigs[k].owner,
                                          boot.repoConfigs[k].name)]]
  /\ UNCHANGED <<batch, scan, fetch, limiter, rest, prs, runs, rel, validation, promote>>

NextStartup ==
  TokenChecked \/ RepoArgumentsRead \/ EntriesMerged \/ WindowBuilt \/ CollectionStarts

SpecStartup == InitStartup /\ [][NextStartup]_vars

\* ================================================================ claims
InCollectRepo(w) == W(w).pc # "exited"
Belongs(entry, i) == entry.repo \in {Slug(i), FullName(i)}

\* C1: the array collectReposParallel returns has one entry per input
\* repository, and its i-th entry is the one of the i-th repository,
\* whichever repositories failed and in whatever order they completed.
C1_OneResultPerRepoInOrder ==
  main = "returned" =>
    /\ Len(out) = n
    /\ \A i \in Repos : Belongs(out[i + 1], i)

\* a batch of two repositories run by two workers has returned, the first
\* repository failed and the second was collected
C1_Witness ==
  /\ main = "returned"
  /\ n = MaxRepos
  /\ Cardinality(Pool) > 1
  /\ stage[0] = "Failed"
  /\ stage[1] = "Done"
  /\ Len(out) = n

\* C2: a throw of collectRepo is caught in the worker: the repository's
\* entry is the zero-valued result with its slug, the worker goes on, and the
\* entry of every collected repository is what its own upstream gives.
C2_FailureIsolated ==
  /\ \A i \in Repos :
       /\ stage[i] = "Failed" =>
            results[i] = [kind |-> "result", repo |-> Slug(i), pullRequests |-> 0,
                          deploymentEvents |-> 0, cached |-> FALSE]
       /\ stage[i] = "Done" =>
            results[i] = [kind |-> "result", repo |-> FullName(i),
                          pullRequests |-> UpstreamPulls(i),
                          deploymentEvents |-> UpstreamEvents(i),
                          cached |-> ~forceRefresh]
  /\ main = "returned" => \A i \in Repos : stage[i] \in {"Failed", "Done"}

\* C3: every index is taken from the counter by exactly one worker and
\* collectRepo is called exactly once for it.
C3_EachIndexCollectedOnce ==
  /\ \A i \in Repos :
       /\ collects[i] <= 1
       /\ Cardinality({w \in Pool : InCollectRepo(w) /\ W(w).cur = i}) <= 1
       /\ stage[i] # "Pending" => collects[i] = 1
  /\ main = "returned" => \A i \in Repos : collects[i] = 1

\* two workers have shared a batch: each repository was claimed once and
\* each worker read the counter once more to find the batch exhausted
C3_Witness ==
  /\ main = "returned"
  /\ Cardinality(Pool) > 1
  /\ n = MaxRepos
  /\ index > n
  /\ \A i \in Repos : collects[i] = 1

\* C4: at most min(concurrency, N) repositories are in collection at a time.
C4_BoundedInProgress ==
  Cardinality({w \in Pool : InCollectRepo(w)}) <= Min(concurrency, n)

\* the pool is full: min(concurrency, N) requests are in flight while a
\* repository still waits for a worker
C4_Witness ==
  /\ Cardinality({w \in Pool : W(w).pc = "call"}) = Min(concurrency, n)
  /\ n > concurrency
  /\ \E i \in Repos : stage[i] = "Pending" /\ collects[i] = 0

\* C5: every upstream call, REST or GraphQL, is sent right after a completed
\* checkAndWait.
C5_EveryCallGated == ungated = {}

\* C6: the headers of every response, REST or GraphQL, have been given to
\* updateFromHeaders.
C6_EveryResponseObserved == unobserved = {}

\* C7 as stated: no file of a repository is written before both its event
\* collection and its pull-request collection have succeeded, and a
\* repository whose collection threw has had no file written in this run.
C7_NoWriteBeforeBothSucceeded ==
  \A i \in Repos :
    /\ written[i] # {} => stage[i] \in {"PullRequestsCollected", "Done"}
    /\ stage[i] = "Failed" => written[i] = {}

\* C7 amended: each file is written as soon as the step that produces it has
\* succeeded, in the order metadata.json, workflow-runs.json,
\* pull-requests.json: metadata.json when the metadata request returned,
\* before the events are collected; workflow-runs.json when the event source
\* returned, before the pull requests are collected; pull-requests.json when
\* the pull-request source returned. A step served from its cache file
\* writes nothing. When a step throws, the files of the earlier steps have
\* been written and neither its own file nor a later one is.
C7_WritesFollowOwnCollection ==
  \A i \in Repos :
    written[i] =
      CASE stage[i] = "Pending" -> {}
        [] stage[i] = "MetadataFetched" -> {"metadata"}
        [] stage[i] = "EventsCollected" -> {"metadata"} \cup (sourced[i] \cap {"events"})
        [] stage[i] \in {"PullRequestsCollected", "Done"} -> {"metadata"} \cup sourced[i]
        [] stage[i] = "Failed" ->
             IF sourced[i] = {} THEN {}
             ELSE IF "pulls" \in sourced[i]
                    THEN {"metadata"} \cup (sourced[i] \cap {"events"})
                    ELSE {"metadata"}

\* the pull-request query of a repository has thrown after its metadata.json
\* and its workflow-runs.json were written in this run
C7_Witness ==
  \E i \in Repos :
    /\ stage[i] = "Failed"
    /\ written[i] = {"metadata", "events"}
    /\ disk[repoDir[i]].events # Absent
    /\ disk[repoDir[i]].pulls = Absent

\* both process runs had forceRefresh = false, and the first left all three
\* files of the repository
SecondRunOver(i) ==
  /\ rerun
  /\ ~forceRefresh
  /\ ~before.forceRefresh
  /\ \A f \in Files : before.disk[repoDir[i]][f] # Absent

\* C8 as stated: the second of two runs with forceRefresh = false leaves
\* every file of the first run identical and calls neither the event source
\* nor the pull-request source.
C8_SecondRunChangesNothing ==
  \A i \in Repos :
    SecondRunOver(i) => disk[repoDir[i]] = before.disk[repoDir[i]] /\ sourced[i] = {}

\* C8 amended: the second run leaves workflow-runs.json and
\* pull-requests.json identical and calls neither the event source nor the
\* pull-request source; the metadata request is sent again, and when it
\* succeeds metadata.json is rewritten with the metadata and etag of the
\* upstream repository and a new fetchedAt. A metadata.json nobody rewrote is
\* the one of the first run.
C8_SecondRunReusesCollections ==
  \A i \in Repos :
    SecondRunOver(i) =>
      /\ disk[repoDir[i]].events = before.disk[repoDir[i]].events
      /\ disk[repoDir[i]].pulls = before.disk[repoDir[i]].pulls
      /\ sourced[i] = {}
      /\ written[i] \subseteq {"metadata"}
      /\ stage[i] \in {"Pending", "Failed"} <=> written[i] = {}
      /\ LET writers == {j \in Repos : repoDir[j] = repoDir[i] /\ "metadata" \in written[j]}
         IN IF writers = {}
              THEN disk[repoDir[i]].metadata = before.disk[repoDir[i]].metadata
              ELSE \E j \in writers :
                     /\ disk[repoDir[i]].metadata.metadata = [fullName |-> FullName(j)]
                     /\ disk[repoDir[i]].metadata.etag = Etag(j)
                     /\ disk[repoDir[i]].metadata.fetchedAt \in windowEnd .. now

\* the second run is over: the repository was served from its files, and
\* metadata.json carries a later fetchedAt than the first run left
C8_Witness ==
  \E i \in Repos :
    /\ SecondRunOver(i)
    /\ main = "returned"
    /\ stage[i] = "Done"
    /\ sourced[i] = {}
    /\ disk[repoDir[i]].metadata.fetchedAt > before.disk[repoDir[i]].metadata.fetchedAt
    /\ disk[repoDir[i]].events = before.disk[repoDir[i]].events

StageStep(a, b) ==
  \/ a = "Pending" /\ b = "MetadataFetched"
  \/ a = "MetadataFetched" /\ b = "EventsCollected"
  \/ a = "EventsCollected" /\ b = "PullRequestsCollected"
  \/ a = "PullRequestsCollected" /\ b = "Done"
  \/ a \notin {"Done", "Failed"} /\ b = "Failed"

\* the stage the repository of a worker is in, by what the worker is doing
StageOf(rec) ==
  CASE rec.pc = "events" -> "MetadataFetched"
    [] rec.pc = "pulls" -> "EventsCollected"
    [] rec.pc = "return" -> "PullRequestsCollected"
    [] rec.req = "metadata" -> "Pending"
    [] rec.req = "events" -> "MetadataFetched"
    [] rec.req = "pulls" -> "EventsCollected"

\* C9: within a run the stage of a repository moves only along Pending,
\* MetadataFetched, EventsCollected, PullRequestsCollected, Done, one stage
\* at a time, or to Failed, and never leaves Done or Failed; the events are
\* requested only in MetadataFetched and the pull requests only in
\* EventsCollected; a repository no worker is collecting is Pending, Done or
\* Failed.
C9_StagesInOrder ==
  /\ [](\A w \in Pool : InCollectRepo(w) => stage[W(w).cur] = StageOf(W(w)))
  /\ [](\A i \in Repos :
          (\A w \in Pool : InCollectRepo(w) => W(w).cur # i) =>
            stage[i] \in {"Pending", "Done", "Failed"})
  /\ [][rerun' = rerun =>
          \A i \in Repos : stage'[i] = stage[i] \/ StageStep(stage[i], stage'[i])]_vars

\* a repository served from its cache files has passed every stage to Done
\* without a source call, after a first run in which its events were
\* collected and its pull-request query threw
C9_Witness ==
  \E i \in Repos :
    /\ rerun
    /\ stage[i] = "Done"
    /\ sourced[i] = {"pulls"}
    /\ before.disk[repoDir[i]].events # Absent
    /\ before.disk[repoDir[i]].pulls = Absent

\* C10: no event collectDeploymentGraphQLEvents has pushed has a createdAt
\* strictly before the window start, whatever the pages hold and in whatever
\* order their nodes come.
C10_NoEventOlderThanWindow ==
  scan.pc # "none" =>
    \A k \in 1 .. Len(scan.deployments) :
      LET createdAt == scan.deployments[k].createdAt
      IN createdAt.iso => createdAt.t >= scan.args.windowStart.t

\* the scan has returned at an old node that followed a node of the window
\* in the first page: the node of the window is the one event
C10_Witness ==
  /\ scan.pc = "returned"
  /\ scan.stopped = "old node"
  /\ scan.cursor = 0
  /\ scan.inspected = 2
  /\ Len(scan.deployments) = 1
  /\ scan.args.windowStart.t > 0

\* C11: fetchWithConditional called with a cached value: on a 304 the data,
\* etag and lastModified returned are those of the cached value and the
\* source is "cache"; on a resolved request the data is that of the response,
\* the validators are its etag and last-modified headers when these are
\* strings and undefined otherwise, and the source is "network".
C11_CacheOnNotModified ==
  (fetch.pc \in {"returned", "thrown"} /\ fetch.cached # Absent) =>
    /\ fetch.answer.status = 304 =>
         /\ fetch.pc = "returned"
         /\ fetch.outcome.data = fetch.cached.data
         /\ fetch.outcome.etag = fetch.cached.etag
         /\ fetch.outcome.lastModified = fetch.cached.lastModified
         /\ fetch.outcome.source = "cache"
    /\ fetch.answer.status = 200 =>
         /\ fetch.pc = "returned"
         /\ fetch.outcome.data = fetch.answer.data
         /\ fetch.outcome.etag =
              (IF fetch.answer.etag.kind = "string" THEN fetch.answer.etag ELSE Undefined)
         /\ fetch.outcome.lastModified =
              (IF fetch.answer.lastModified.kind = "string" THEN fetch.answer.lastModified
               ELSE Undefined)
         /\ fetch.outcome.source = "network"

\* a 304 answered a request that carried the etag of the cached value, and
\* the cached value came back
C11_Witness ==
  /\ fetch.pc = "returned"
  /\ fetch.answer.status = 304
  /\ fetch.cached # Absent
  /\ fetch.sent.ifNoneMatch = StringValue("old etag")
  /\ fetch.outcome.etag = StringValue("old etag")
  /\ fetch.outcome.source = "cache"

\* C15: every rejection that is not a 304 answering a cached value is
\* thrown on as it is, a 304 without a cached value included; without a
\* cached value the request carries neither If-None-Match nor
\* If-Modified-Since, and a resolved request is reported as "network".
C15_OtherFailuresPropagate ==
  fetch.pc \in {"returned", "thrown"} =>
    /\ (fetch.answer.status # 200 /\ ~(fetch.answer.status = 304 /\ fetch.cached # Absent)) =>
         /\ fetch.pc = "thrown"
         /\ fetch.outcome.error = fetch.answer
    /\ fetch.cached = Absent =>
         /\ fetch.sent = [ifNoneMatch |-> Undefined, ifModifiedSince |-> Undefined]
         /\ fetch.answer.status = 200 =>
              fetch.pc = "returned" /\ fetch.outcome.source = "network"

\* a 304 came although nothing was cached, and was thrown on
C15_Witness ==
  /\ fetch.pc = "thrown"
  /\ fetch.cached = Absent
  /\ fetch.answer.status = 304
  /\ fetch.outcome.error = fetch.answer

\* C16 as stated: the observer is called exactly once on every attempt that
\* ends in success or in not-modified.
C16_ObserverOnEveryAttempt ==
  fetch.pc = "returned" => Len(fetch.outcome.observed) = 1

\* C16 amended: the observer is called exactly once, with the headers of the
\* response, on every resolved request, and on a 304 answering a cached value
\* exactly once when the error carries response headers and not at all when
\* it carries none; it is not called on a failure that is thrown on.
C16_ObserverWhenHeaders ==
  fetch.pc \in {"returned", "thrown"} =>
    fetch.outcome.observed =
      (IF fetch.pc = "returned" /\ fetch.answer.headers # Absent
         THEN <<fetch.answer.headers>> ELSE <<>>)

\* a 304 whose error carried rate-limit headers was answered from the cached
\* value, and the observer got these headers
C16_Witness ==
  /\ fetch.pc = "returned"
  /\ fetch.outcome.source = "cache"
  /\ fetch.answer.headers # Absent
  /\ fetch.answer.headers.remaining # Missing
  /\ fetch.outcome.observed = <<fetch.answer.headers>>

\* C12: a call of checkAndWait that finds remaining > threshold returns
\* without suspending, and so does one that finds resetAt not later than the
\* current time, whatever the other field holds.
C12_ReturnsWithoutDelay ==
  (/\ limiter.pc # "none"
   /\ limiter.at # Absent
   /\ \/ (limiter.at.remaining # NaN /\ limiter.at.remaining > limiter.at.threshold)
      \/ (limiter.at.resetAt # NaN /\ limiter.at.resetAt <= limiter.at.now))
    => (~limiter.waited /\ limiter.pc \in {"returned", "idle"})

\* checkAndWait has returned at once on a reset time that has passed, with
\* the quota at the threshold
C12_Witness ==
  /\ limiter.pc = "returned"
  /\ ~limiter.waited
  /\ limiter.at.remaining = LowRemaining
  /\ limiter.at.resetAt # NaN
  /\ limiter.at.resetAt <= limiter.at.now
  /\ limiter.at.now > 0

\* the call found the quota at or below the threshold and the reset time ahead
FoundExhausted ==
  /\ limiter.pc # "none"
  /\ limiter.at # Absent
  /\ limiter.at.remaining # NaN
  /\ limiter.at.remaining <= limiter.at.threshold
  /\ limiter.at.resetAt # NaN
  /\ limiter.at.resetAt > limiter.at.now

\* C13: a call of checkAndWait that finds remaining <= threshold and resetAt
\* ahead suspends its caller; it has not returned while the clock is before
\* that resetAt plus the buffer, and it does return in the end.
C13_WaitsUntilResetThenReturns ==
  /\ [](FoundExhausted => limiter.waited)
  /\ [](FoundExhausted /\ limiter.pc \in {"returned", "idle"} =>
          limiter.now >= limiter.at.resetAt + WaitBuffer)
  /\ ((limiter.pc = "sleep") ~> (limiter.pc = "returned"))

\* the caller has waited and checkAndWait has returned, at the first second
\* it could
C13_Witness ==
  /\ FoundExhausted
  /\ limiter.pc = "returned"
  /\ limiter.waited
  /\ limiter.now = limiter.at.resetAt + WaitBuffer

\* a header field that is absent, a string that is not a number, or a number
\* that is not finite
Malformed(field) ==
  \/ field.type \in {"undefined", "badstring", "trailing"}
  \/ field.type = "number" /\ field.val = NaN

\* C14: headers that are missing or malformed leave remaining and resetAt as
\* they were.
C14_MalformedHeadersIgnored ==
  [][(limiter.pc # "none" /\ limiter'.last # Absent) =>
       /\ Malformed(limiter'.last.remaining) =>
            limiter'.rate.remaining = limiter.rate.remaining
       /\ Malformed(limiter'.last.reset) =>
            limiter'.rate.resetAt = limiter.rate.resetAt]_vars

\* C17: a batch whose workers have started runs to completion: when every
\* call is answered and every listing ends, all workers leave their loop and
\* collectReposParallel returns, with every repository collected or failed.
C17_BatchCompletes ==
  <>(/\ main = "returned"
     /\ \A w \in Pool : W(w).pc = "exited"
     /\ \A i \in Repos : stage[i] \in {"Done", "Failed"})

\* the one worker of a batch went on to the second repository after the
\* first had thrown, and the batch has returned
C17_Witness ==
  /\ main = "returned"
  /\ Cardinality(Pool) = 1
  /\ n = MaxRepos
  /\ stage[0] = "Failed"
  /\ stage[n - 1] = "Done"

\* a slug of the form owner/name: one slash, with characters on both sides
OwnerSlashName(slug) ==
  /\ Cardinality({k \in 1 .. Len(slug) : slug[k] = "/"}) = 1
  /\ slug[1] # "/"
  /\ slug[Len(slug)] # "/"

\* C18: with the credential missing, the repository list empty or a slug that
\* is not of the form owner/name, the run stops before collection: no worker
\* is started.
C18_FatalStartupStopsRun ==
  (boot.pc # "none" /\ boot.started) =>
    /\ boot.token
    /\ Len(boot.entries) > 0
    /\ \A k \in 1 .. Len(boot.entries) : OwnerSlashName(boot.entries[k])

\* C19: no two repositories of a batch have the same output directory.
C19_OneDirectoryPerRepo ==
  boot.pc = "collecting" =>
    \A j, k \in 1 .. Len(boot.dirs) : j # k => boot.dirs[j] # boot.dirs[k]

\* C20: when a page holds a node created before the window start, the scan
\* returns at the first such node: the nodes before it are the only ones of
\* the page that are inspected, the events are those accumulated up to it,
\* and no further page is requested, whether or not hasNextPage is true.
C20_ReturnsAtFirstOldNode ==
  [][(scan.pc = "query" /\ scan'.pc # "thrown" /\ scan'.page.old > 0) =>
       /\ scan'.pc = "returned"
       /\ scan'.inspected = scan.inspected + scan'.page.old
       /\ scan'.cursor = scan.cursor
       /\ Len(scan'.deployments) \in
            Len(scan.deployments) .. (Len(scan.deployments) + scan'.page.old - 1)
       /\ SubSeq(scan'.deployments, 1, Len(scan.deployments)) = scan.deployments]_vars

\* the scan has returned at the first node of a page, an old one: the node
\* after it was not inspected, and the next page was not requested although
\* hasNextPage was true
C20_Witness ==
  /\ scan.pc = "returned"
  /\ scan.page.old = 1
  /\ scan.page.size > 1
  /\ scan.page.hasNextPage
  /\ scan.cursor = 0
  /\ scan.inspected = 1
  /\ scan.deployments = <<>>

Essence(events) ==
  {[id |-> events[k].id, status |-> events[k].status, createdAt |-> events[k].createdAt]
     : k \in 1 .. Len(events)}

\* C22: on the same deployments in descending order of creation, with the
\* same window and allow-lists, the REST source and the GraphQL source emit
\* the same set of events: same ids, status and createdAt.
C22_SourcesAgree ==
  (rest.pc = "returned" /\ scan.pc = "returned") =>
    Essence(rest.deployments) = Essence(scan.deployments)

\* both sources have returned two events of a listing of three deployments
\* that were filtered by environment and status and ended by an old one
C22_Witness ==
  /\ rest.pc = "returned"
  /\ scan.pc = "returned"
  /\ Len(rest.listing) = 3
  /\ HasMatcher(rest.args.environments)
  /\ HasMatcher(rest.args.statuses)
  /\ Cardinality(Essence(scan.deployments)) = 2
  /\ rest.page.old > 0

\* the page the query in flight will get
PullsPage == PageOf(prs.connection, prs.size, prs.cursor + 1)

\* every node of the page is unmerged or merged before the window start
StalePage(nodes) ==
  /\ Len(nodes) > 0
  /\ \A k \in 1 .. Len(nodes) :
       \/ nodes[k].mergedAt = NoTimestamp
       \/ nodes[k].mergedAt.t < prs.options.windowStart.t

\* C23: when every node of a non-empty page is unmerged or merged before the
\* window start, collectPullRequests returns after that page: no further
\* page is requested, nothing of the page is added to either list, and a
\* first page of that kind leaves the returned list empty.
C23_StalePageStopsScan ==
  [][(prs.pc = "query" /\ prs'.pc # "thrown" /\ StalePage(PullsPage)) =>
       /\ prs'.pc = "returned"
       /\ prs'.cursor = prs.cursor
       /\ prs'.results = prs.results
       /\ prs'.excludedBots = prs.excludedBots
       /\ (prs.cursor = 0 => prs'.results = <<>>)]_vars

\* the scan has returned on a stale second page that had a next page, with
\* what the first page gave
C23_Witness ==
  /\ prs.pc = "returned"
  /\ prs.cursor = 1
  /\ StalePage(PullsPage)
  /\ HasNextPage(prs.connection, prs.size, prs.cursor + 1)
  /\ Len(prs.results) > 0

\* C24: every record of the returned pullRequests list has a mergedAt, and
\* it lies inside the window: windowStart <= mergedAt <= windowEnd.
C24_PullsInsideWindow ==
  prs.pc = "returned" =>
    \A k \in 1 .. Len(prs.results) :
      /\ prs.results[k].mergedAt # NoTimestamp
      /\ prs.results[k].mergedAt.t >= prs.options.windowStart.t
      /\ prs.results[k].mergedAt.t <= prs.options.windowEnd.t

\* the connection is sorted newest-merged-first
NewestMergedFirst(connection) ==
  /\ \A k \in 1 .. Len(connection) : connection[k].mergedAt # NoTimestamp
  /\ \A k \in 1 .. (Len(connection) - 1) :
       connection[k].mergedAt.t >= connection[k + 1].mergedAt.t

Numbers(list) == {list[k].number : k \in 1 .. Len(list)}

\* C25: on a connection sorted newest-merged-first, every pull request
\* merged at or after the window start is returned, in pullRequests or in
\* excludedBots, whatever the page size and wherever the window start falls.
C25_EarlyExitLosesNothing ==
  (prs.pc = "returned" /\ NewestMergedFirst(prs.connection)) =>
    \A k \in 1 .. Len(prs.connection) :
      prs.connection[k].mergedAt.t >= prs.options.windowStart.t =>
        prs.connection[k].number \in Numbers(prs.results) \cup Numbers(prs.excludedBots)

\* the scan stopped on a stale page with a page left unread, after a page
\* that held the window start between two of its pull requests
C25_Witness ==
  /\ prs.pc = "returned"
  /\ NewestMergedFirst(prs.connection)
  /\ Len(prs.connection) = MaxPulls
  /\ prs.size = 1
  /\ prs.cursor = 1
  /\ Len(prs.results) = 1
  /\ StalePage(PullsPage)

\* C26: with includeBotPRs false, a merged pull request the loop went over
\* whose author is classified as a bot is not in pullRequests and is in
\* excludedBots with its number and author login; with includeBotPRs true
\* excludedBots is empty and a bot's pull request is kept like any other
\* merged in the window. No pull request is in both lists.
C26_BotsSetApart ==
  prs.pc # "none" =>
    /\ Numbers(prs.results) \cap Numbers(prs.excludedBots) = {}
    /\ \A k \in 1 .. Len(prs.connection) :
         LET pr == prs.connection[k]
             bot == IsBotAuthorLogin(pr.author, prs.options.botAuthorPatterns)
             listed == \E j \in 1 .. Len(prs.excludedBots) :
                         prs.excludedBots[j] = [number |-> pr.number, authorLogin |-> pr.author]
             inWindow == pr.mergedAt.t >= prs.options.windowStart.t
         IN (pr.number \in prs.looped /\ pr.mergedAt # NoTimestamp) =>
              IF prs.options.includeBotPRs
                THEN /\ prs.excludedBots = <<>>
                     /\ pr.number \in Numbers(prs.results) <=> inWindow
                ELSE /\ bot => listed /\ pr.number \notin Numbers(prs.results)
                     /\ ~bot => ~listed /\ (pr.number \in Numbers(prs.results) <=> inWindow)

\* a scan with bots excluded has returned a human's pull request and set
\* apart two bots, one by its suffix and one by a configured pattern
C26_Witness ==
  /\ prs.pc = "returned"
  /\ ~prs.options.includeBotPRs
  /\ Len(prs.results) = 1
  /\ \E j, k \in 1 .. Len(prs.excludedBots) :
       /\ EndsWith(prs.excludedBots[j].authorLogin, BotSuffix)
       /\ ~EndsWith(prs.excludedBots[k].authorLogin, BotSuffix)

\* the logins an author can have
Logins ==
  {<<>>} \cup
  UNION {{name, name \o BotSuffix} : name \in {<<"a">>, <<"A", "b">>, <<"b", "A">>, <<"B">>}}

EventsOf(k) ==
  {j \in 1 .. Len(runs.selected) : runs.selected[j].id = String(runs.listing[k].id)}

\* C28: collectActionsEvents emits no event for a run whose conclusion is
\* not "success" or whose status is not "completed", whatever its name,
\* title, event, branch and the configured keywords or workflow id.
C28_OnlyFinishedRunsEmitted ==
  runs.pc = "returned" =>
    \A k \in 1 .. Len(runs.listing) :
      (runs.listing[k].status # "completed" \/ runs.listing[k].conclusion # "success")
        => EventsOf(k) = {}

\* a listing was gone through whose first run was emitted and whose second,
\* of the same workflow, event and branch and inside the window too, failed
\* and was not
C28_Witness ==
  /\ runs.pc = "returned"
  /\ Len(runs.listing) = 2
  /\ EventsOf(1) # {}
  /\ runs.listing[2].status = "completed" /\ runs.listing[2].conclusion = "failure"
  /\ runs.listing[2].created_at = runs.listing[1].created_at
  /\ EventsOf(2) = {}

\* the branch without a leading refs/heads/
Bare(branch) ==
  IF Len(branch) > 2 /\ SubSeq(branch, 1, 2) = RefsHeads THEN SubSeq(branch, 3, Len(branch))
  ELSE branch

\* run k is completed and successful, was created inside the window and
\* passes the event and branch filters that are configured
Eligible(k) ==
  LET run == runs.listing[k]
  IN /\ run.status = "completed" /\ run.conclusion = "success"
     /\ runs.windowStart.t <= run.created_at.t /\ run.created_at.t <= runs.windowEnd.t
     /\ runs.options.events # <<>> =>
          \E j \in 1 .. Len(runs.options.events) :
            ToLowerCase(runs.options.events[j]) = ToLowerCase(run.event)
     /\ runs.options.branch # <<>> =>
          run.head_branch # <<>> /\ Bare(run.head_branch) = Bare(runs.options.branch)

\* C29: with an explicit workflowId configured, a completed, successful,
\* in-window run of that workflow passing the event and branch filters is
\* emitted even when workflowKeywords is empty or matches nothing.
C29_WorkflowIdBypassesKeywords ==
  (runs.pc = "returned" /\ runs.options.workflowId # <<>>) =>
    \A k \in 1 .. Len(runs.listing) :
      (runs.listing[k].workflow_id = runs.options.workflowId[1] /\ Eligible(k))
        => EventsOf(k) # {}

\* a configured keyword is a case-insensitive substring of the name, a
\* space and the display title of run k
KeywordMatches(k) ==
  \E j \in 1 .. Len(runs.options.workflowKeywords) :
    Includes(LowerCased(runs.listing[k].name \o <<" ">> \o runs.listing[k].display_title),
             LowerCased(runs.options.workflowKeywords[j]))

\* C30: without a workflowId, collectActionsEvents emits exactly one event,
\* with id String(run.id), for each run that is completed and successful,
\* inside the inclusive window, matched by a configured keyword and passing
\* the event and branch filters, and nothing for any other run.
C30_OneEventPerMatchingRun ==
  (runs.pc = "returned" /\ runs.options.workflowId = <<>>) =>
    /\ \A k \in 1 .. Len(runs.listing) :
         Cardinality(EventsOf(k)) = IF Eligible(k) /\ KeywordMatches(k) THEN 1 ELSE 0
    /\ \A j \in 1 .. Len(runs.selected) :
         \E k \in 1 .. Len(runs.listing) : j \in EventsOf(k)

\* C31: the Actions branch filter treats the bare and the refs/heads/
\* prefixed form of one branch as equal in both directions: among the runs
\* that pass every other test, a configured branch b or refs/heads/b lets
\* through exactly those whose head_branch is b or refs/heads/b.
C31_BranchAliasesEqual ==
  (runs.pc = "returned" /\ runs.options.branch # <<>>) =>
    \A k \in 1 .. Len(runs.listing) :
      LET run == runs.listing[k]
          keywords == [j \in 1 .. Len(runs.options.workflowKeywords) |->
                         LowerCased(runs.options.workflowKeywords[j])]
      IN (/\ Finished(run)
          /\ ~OutsideWindow(run, runs.windowStart, runs.windowEnd)
          /\ ~NoKeywordMatch(keywords, Target(run))
          /\ ~EventNotAllowed(runs.options.events, run))
           => (EventsOf(k) # {} <=>
                 /\ run.head_branch # <<>>
                 /\ Bare(run.head_branch) = Bare(runs.options.branch))

\* a run on refs/heads/main was emitted with the bare branch configured
C31_Witness ==
  /\ runs.pc = "returned"
  /\ runs.options.branch = <<"main">>
  /\ \E k \in 1 .. Len(runs.listing) :
       runs.listing[k].head_branch = RefsHeads \o <<"main">> /\ EventsOf(k) # {}

\* the events returned for release k of the listing
ReleaseEventsOf(k) ==
  {j \in 1 .. Len(rel.events) :
     rel.events[j].id = <<"release", ":">> \o String(rel.listing[k].id)}

\* the timestamp of release k: published_at, else created_at
TimestampOf(k) == Coalesce(rel.listing[k].published_at, rel.listing[k].created_at)

\* release k has a timestamp and it is older than the window start
OlderRelease(k) == TimestampOf(k) # NoTimestamp /\ TimestampOf(k).t < rel.windowStart.t

\* C32: a release whose timestamp is older than the window start
\* short-circuits the scan: no release after it in the listing is inspected
\* or emitted.
C32_OldReleaseEndsScan ==
  rel.pc = "returned" =>
    \A k \in 1 .. Len(rel.listing) :
      OlderRelease(k) =>
        /\ rel.inspected <= k
        /\ \A j \in (k + 1) .. Len(rel.listing) : ReleaseEventsOf(j) = {}

\* C32 as amended: a release older than the window start is never emitted
\* and does not end the scan: every release of the listing is inspected.
C32_OldReleaseSkipped ==
  rel.pc = "returned" =>
    /\ \A k \in 1 .. Len(rel.listing) : OlderRelease(k) => ReleaseEventsOf(k) = {}
    /\ rel.inspected = Len(rel.listing)

\* the first release was older than the window start and the second, after
\* it in the listing, was emitted
C32_Witness ==
  /\ rel.pc = "returned"
  /\ Len(rel.listing) = 2
  /\ OlderRelease(1)
  /\ ReleaseEventsOf(1) = {}
  /\ ReleaseEventsOf(2) # {}

\* release k has a timestamp inside the inclusive window
ReleaseInWindow(k) ==
  /\ TimestampOf(k) # NoTimestamp
  /\ rel.windowStart.t <= TimestampOf(k).t /\ TimestampOf(k).t <= rel.windowEnd.t

\* C33: with includePrereleases false or unset no event is emitted for a
\* prerelease and one event for each in-window release that is no
\* prerelease and matches the tag filter; with includePrereleases true
\* prereleases are emitted as well.
C33_PrereleasesOnlyWhenIncluded ==
  rel.pc = "returned" =>
    \A k \in 1 .. Len(rel.listing) :
      LET wanted == \/ rel.options.includePrereleases = <<TRUE>>
                    \/ ~rel.listing[k].prerelease
      IN Cardinality(ReleaseEventsOf(k)) =
           IF /\ ReleaseInWindow(k)
              /\ wanted
              /\ MatchesTag(rel.listing[k].tag_name, rel.options.tagPattern).value
             THEN 1 ELSE 0

\* with the option unset, of two releases inside the window the prerelease
\* was left out and the other emitted
C33_Witness ==
  /\ rel.pc = "returned"
  /\ rel.options.includePrereleases = <<>>
  /\ Len(rel.listing) = 2
  /\ ReleaseInWindow(1) /\ ReleaseInWindow(2)
  /\ rel.listing[1].prerelease /\ ~rel.listing[2].prerelease
  /\ ReleaseEventsOf(1) = {} /\ ReleaseEventsOf(2) # {}

\* release k passes every test of the loop before the tag filter
BeforeTagFilter(k) ==
  /\ ReleaseInWindow(k)
  /\ rel.options.includePrereleases = <<TRUE>> \/ ~rel.listing[k].prerelease

\* C34: the release tag filter never raises: with a tagPattern that does
\* not compile as a regular expression it is plain containment of the
\* pattern in the tag and the collection goes on; with no pattern every tag
\* matches, and with a pattern a release without tag never matches.
C34_TagFilterNeverRaises ==
  /\ rel.pc # "raised"
  /\ rel.pc = "returned" =>
       \A k \in 1 .. Len(rel.listing) :
         LET tag == rel.listing[k].tag_name
             pattern == rel.options.tagPattern
             emitted == ReleaseEventsOf(k) # {}
         IN BeforeTagFilter(k) =>
              /\ pattern = <<>> => emitted
              /\ (pattern # <<>> /\ tag = <<>>) => ~emitted
              /\ (pattern # <<>> /\ tag # <<>> /\ ~Compiles(pattern))
                   => (emitted <=> Includes(tag, pattern))

\* with a pattern that does not compile, of two releases the one whose tag
\* contains the pattern was emitted and the other was not
C34_Witness ==
  /\ rel.pc = "returned"
  /\ ~Compiles(rel.options.tagPattern)
  /\ Len(rel.listing) = 2
  /\ BeforeTagFilter(1) /\ BeforeTagFilter(2)
  /\ rel.listing[1].tag_name = <<"v", "1">> /\ ReleaseEventsOf(1) = {}
  /\ ReleaseEventsOf(2) # {}

\* C35: in every event source a record that lacks its required timestamp
\* is left out of the emitted events without an error, and the remaining
\* records are still processed.  Stated of the GraphQL deployments source:
\* no event it returns or holds comes from a node without a timestamp.
C35_MissingTimestampExcluded ==
  scan.pc # "none" =>
    \A k \in 1 .. Len(scan.deployments) : scan.deployments[k].createdAt # NotADate

\* C36: the window handed to the engine always satisfies windowStart <=
\* windowEnd, for every value of the days option accepted at startup; a
\* window violating this never reaches a collector.
C36_WindowStartBeforeEnd ==
  (boot.pc # "none" /\ boot.started) => boot.windowStart.t <= boot.windowEnd.t

\* result k of the last call is accepted and its lower-cased slug is
\* neither in the sample file, nor in the validation file before the call,
\* nor that of an accepted result before it
FreshResult(k) ==
  LET items == validation.results
      slug == LowerCased(items[k].fullName)
  IN /\ items[k].status = "accepted"
     /\ slug \notin EntrySlugs(validation.sample.entries)
     /\ slug \notin EntrySlugs(validation.before.entries)
     /\ \A j \in 1 .. (k - 1) :
          items[j].status = "accepted" => LowerCased(items[j].fullName) # slug

\* the entries the last call put in the validation file
AddedEntries ==
  LET after == validation.file.entries
      kept == IF validation.append THEN Len(validation.before.entries) ELSE 0
  IN IF validation.file = validation.before THEN <<>>
     ELSE SubSeq(after, kept + 1, Len(after))

\* C37: writeValidationFile writes one entry for each accepted result whose
\* lower-cased slug is neither in the sample file nor already in the
\* validation file nor earlier in the same call, and nothing for excluded
\* results; in append mode the existing entries are kept unchanged as a
\* prefix, so applying the same results again adds no entry and the file
\* never holds two entries with the same lower-cased slug.
C37_ValidationEntriesOncePerSlug ==
  validation.pc \in {"written", "repeated"} =>
    LET items == validation.results
        existing == validation.before.entries
        after == validation.file.entries
    IN /\ \A k \in 1 .. Len(items) :
            FreshResult(k) =>
              Cardinality({j \in 1 .. Len(after) :
                             LowerCased(after[j].slug) = LowerCased(items[k].fullName)}) = 1
       /\ \A j \in 1 .. Len(AddedEntries) :
            /\ LowerCased(AddedEntries[j].slug) \notin EntrySlugs(validation.sample.entries)
            /\ \E k \in 1 .. Len(items) :
                 /\ items[k].status = "accepted"
                 /\ AddedEntries[j] = [slug |-> items[k].fullName,
                                       method |-> items[k].recommendedMethod]
       /\ validation.append =>
            /\ Len(after) >= Len(existing)
            /\ SubSeq(after, 1, Len(existing)) = existing
            /\ \A j \in 1 .. Len(AddedEntries) :
                 LowerCased(AddedEntries[j].slug) \notin EntrySlugs(existing)
       /\ validation.pc = "repeated" => validation.file = validation.before
       /\ \A i, j \in 1 .. Len(after) :
            i # j => LowerCased(after[i].slug) # LowerCased(after[j].slug)

\* an appending call was repeated on a file that held an entry before and
\* got a second one from the first call, out of two accepted results with
\* the same lower-cased slug
C37_Witness ==
  /\ validation.pc = "repeated"
  /\ validation.append
  /\ Len(validation.file.entries) = 2
  /\ validation.file.entries[1].slug = <<"B">>
  /\ Len(validation.results) = 2
  /\ validation.results[1].status = "accepted" /\ validation.results[2].status = "accepted"
  /\ validation.results[1].fullName = <<"a">> /\ validation.results[2].fullName = <<"A">>

\* the lower-cased slug of incoming entry k, trimmed
IncomingKey(k) == LowerCased(Trim(promote.incoming[k].slug))

\* the lower-cased slug of incoming entry k is not yet present: neither in
\* base nor earlier in incoming
NotYetPresent(k) ==
  /\ \A j \in 1 .. Len(promote.base) : LowerCased(promote.base[j].slug) # IncomingKey(k)
  /\ \A j \in 1 .. (k - 1) : IncomingKey(j) # IncomingKey(k)

\* how often a value occurs in a sequence
Occurrences(sequence, value) ==
  Cardinality({j \in 1 .. Len(sequence) : sequence[j] = value})

\* C38: mergeConfigs(base, incoming) keeps every base entry, adds each
\* incoming entry whose lower-cased slug is not yet present exactly once
\* (reported in added), reports every other incoming slug in skipped, and
\* returns merged sorted by lower-cased slug with no two entries sharing a
\* lower-cased slug; merging the same incoming list into the result again
\* adds nothing.
C38_MergeConfigsAddsOnce ==
  /\ promote.pc = "merged" =>
       LET incoming == promote.incoming
           merged == promote.merged
           trimmed(k) == [incoming[k] EXCEPT !.slug = Trim(incoming[k].slug)]
           others == {k \in 1 .. Len(incoming) : ~NotYetPresent(k)}
       IN /\ \A j \in 1 .. Len(promote.base) : Occurrences(merged, promote.base[j]) = 1
          /\ \A k \in 1 .. Len(incoming) :
               NotYetPresent(k) =>
                 /\ Occurrences(merged, trimmed(k)) = 1
                 /\ Occurrences(promote.added, trimmed(k)) = 1
          /\ Len(promote.added) = Len(incoming) - Cardinality(others)
          /\ Len(promote.skipped) = Cardinality(others)
          /\ \A k \in others :
               Occurrences(promote.skipped, Trim(incoming[k].slug)) =
                 Cardinality({j \in others : Trim(incoming[j].slug) = Trim(incoming[k].slug)})
          /\ Len(merged) = Len(promote.base) + Len(promote.added)
          /\ \A i, j \in 1 .. Len(merged) :
               i < j => LocaleCompare(LowerCased(merged[i].slug),
                                      LowerCased(merged[j].slug)) < 0
  /\ promote.pc = "again" =>
       /\ promote.added = <<>>
       /\ promote.merged = promote.first

\* a merge was repeated whose first run kept two base entries out of order,
\* added one incoming entry and skipped the other
C38_Witness ==
  /\ promote.pc = "again"
  /\ Len(promote.base) = 2
  /\ LocaleCompare(LowerCased(promote.base[1].slug), LowerCased(promote.base[2].slug)) > 0
  /\ Len(promote.merged) = 3
  /\ Len(promote.skipped) = 2
  /\ NotYetPresent(1) /\ ~NotYetPresent(2)

\* C39: at the moment checkAndWait returns and lets a request through, the
\* shared state satisfies remaining > threshold or resetAt <= now, also for
\* a caller that slept while the response of another worker set a later
\* resetAt with remaining still at or below the threshold.
C39_ReturnsOnlyWhenCheckPasses ==
  [][(limiter.pc \in {"idle", "sleep"} /\ limiter'.pc = "returned")
       => CheckPasses(limiter'.rate, limiter'.now)]_vars

\* the step in which collectRepo decides on one artifact of the repository a
\* worker collects: a stored artifact is handed on as it is and its source is
\* not called, or the source is called
ArtifactDecided(w, file, next) ==
  LET i == W(w).cur
      stored == disk[repoDir[i]][file]
      list == IF file = "events" THEN stored.runs ELSE stored.pullRequests
      taken == IF file = "events" THEN workers'[w].events ELSE workers'[w].pulls
  IN IF ~forceRefresh /\ stored # Absent
       THEN /\ sourced'[i] = sourced[i]
            /\ workers'[w].pc = next
            /\ taken = list
            /\ disk' = disk
       ELSE /\ file \in sourced'[i]
            /\ workers'[w].pc \in {"gate", "call"}
            /\ workers'[w].req = file

\* C40: with forceRefresh false an existing workflow-runs.json or
\* pull-requests.json is reused whatever window it was collected for: its
\* stored window is not compared with the current one, its source is not
\* called, and the reported count is the length of the stored list; with
\* forceRefresh true an existing artifact is never read and its source is
\* called again.
C40_ArtifactsReusedWhateverWindow ==
  [][\A w \in Pool :
       /\ (W(w).pc = "events" /\ workers'[w] # W(w)) => ArtifactDecided(w, "events", "pulls")
       /\ (W(w).pc = "pulls" /\ workers'[w] # W(w)) => ArtifactDecided(w, "pulls", "return")
       /\ (W(w).pc = "pulls" /\ workers'[w].pc = "return") => workers'[w].events = W(w).events
       /\ (W(w).pc = "return" /\ workers'[w] # W(w)) =>
            /\ results'[ResultSlot(W(w).cur)].deploymentEvents = W(w).events
            /\ results'[ResultSlot(W(w).cur)].pullRequests = W(w).pulls]_vars

\* a later run with forceRefresh false has reported a repository from the two
\* artifacts of the run before, which carry another window than the current
\* one, without calling a source
C40_Witness ==
  \E i \in Repos :
    /\ rerun
    /\ ~forceRefresh
    /\ sourced[i] = {}
    /\ results[ResultSlot(i)] # Absent
    /\ disk[repoDir[i]].events # Absent
    /\ disk[repoDir[i]].pulls # Absent
    /\ disk[repoDir[i]].events.windowEnd # windowEnd
    /\ disk[repoDir[i]].pulls.windowEnd # windowEnd
    /\ results[ResultSlot(i)].deploymentEvents = disk[repoDir[i]].events.runs
    /\ results[ResultSlot(i)].pullRequests = disk[repoDir[i]].pulls.pullRequests
====
